---- MODULE Spec2Model ----
(***************************************************************************)
(* A model of the rustjava virtual machine: the bytecode decoder and the   *)
(* constant-pool parser of class_file_parser.rs, the constant pool of      *)
(* java_class.rs and the frame-based interpreter of jvm.rs.                *)
(*                                                                         *)
(* Representation choices                                                  *)
(*  - A Primitive is a record [tag, v].  Instructions are records          *)
(*    [op, a, b, t]: a and b are the numeric operands, t the type or       *)
(*    comparison operand.                                                  *)
(*  - A Rust String is a sequence of one-character strings wherever the   *)
(*    code looks inside it (descriptors, stdout); names that are only      *)
(*    compared are TLA+ strings.                                           *)
(*  - A usize is represented by its two's-complement signed reading: the   *)
(*    negative number -d stands for 2^64 - d.                              *)
(*  - A Vec is a sequence, its last element being the top of a stack.      *)
(***************************************************************************)
EXTENDS Integers, Sequences, FiniteSets, TLC

VARIABLES
    class_area,       \* Jvm.class_area: class name -> Class
    heap,             \* Jvm.heap
    stack_frames,     \* Jvm.stack_frames
    stdout,           \* Jvm.stdout
    overflow_checks,  \* build profile: TRUE = overflow checks on (debug)
    status,           \* where run() is: "new", "running", "ok", "err", "panic"
    last,             \* the most recent call of step(): number, instruction, result
    origin,           \* history: for each frame, who pushed it
    code,             \* bytes_to_bytecode: the input byte vector
    instructions,     \* bytes_to_bytecode: the decoded vector so far
    dpc,              \* bytes_to_bytecode: pc
    dstatus,          \* bytes_to_bytecode: "idle", "decoding", "done", "panic"
    class_file,       \* parse_file_to_class: the Reader's bytes and what they encode
    rpos,             \* Reader.index
    turn,             \* parse_constant_pool: turns of its loop taken so far
    constant_pool,    \* the constant pool being parsed or extended
    pstatus,          \* "off", "parsing", "parsed", "panic", "pool"
    call              \* the most recent find_or_add_* call: its number, arguments and
                      \* result, the pool before it, and every <<function, arguments,
                      \* index>> returned so far

jvm_vars == <<class_area, heap, stack_frames, stdout, overflow_checks, status, last, origin>>
dec_vars == <<code, instructions, dpc, dstatus>>
pool_vars == <<class_file, rpos, turn, constant_pool, pstatus, call>>
vars == <<class_area, heap, stack_frames, stdout, overflow_checks, status, last, origin,
          code, instructions, dpc, dstatus,
          class_file, rpos, turn, constant_pool, pstatus, call>>

(***************************************************************************)
(* Bounds of the model.                                                    *)
(***************************************************************************)
MaxSteps == 70

(***************************************************************************)
(* Primitive values and types.                                             *)
(***************************************************************************)
PNull == [tag |-> "Null", v |-> 0]
PInt(i) == [tag |-> "Int", v |-> i]
PLong(l) == [tag |-> "Long", v |-> l]
PReference(r) == [tag |-> "Reference", v |-> r]

\* Primitive::is_type: the value's tag is the given PrimitiveType.
is_type(p, t) == p.tag = t

is_wide(p) == p.tag \in {"Long", "Double"}

(***************************************************************************)
(* i64: the value of a Long is kept as its 64 bits, four 16-bit limbs      *)
(* with the least significant first, read in two's complement.             *)
(***************************************************************************)
Limb == 2^16
SignLimb == 2^15

\* The i64 of an integer that fits 32 bits (sign extension).
I64(n) == <<n % Limb, (n \div Limb) % Limb,
            IF n < 0 THEN Limb - 1 ELSE 0, IF n < 0 THEN Limb - 1 ELSE 0>>
Zero64 == <<0, 0, 0, 0>>
\* i64::MIN and i64::MAX
Min64 == <<0, 0, 0, SignLimb>>
Max64 == <<Limb - 1, Limb - 1, Limb - 1, SignLimb - 1>>

IsNeg64(x) == x[4] >= SignLimb

\* `as i32`: the low 32 bits, read in two's complement.
ToI32(x) == IF x[2] >= SignLimb THEN (x[2] - Limb) * Limb + x[1] ELSE x[2] * Limb + x[1]
FitsI32(x) == x = I64(ToI32(x))

\* x + y + c modulo 2^64, for a carry c of 0 or 1.
Add64c(x, y, c) ==
    LET s1 == x[1] + y[1] + c
        s2 == x[2] + y[2] + (s1 \div Limb)
        s3 == x[3] + y[3] + (s2 \div Limb)
        s4 == x[4] + y[4] + (s3 \div Limb)
    IN  <<s1 % Limb, s2 % Limb, s3 % Limb, s4 % Limb>>
Not64(x) == <<Limb - 1 - x[1], Limb - 1 - x[2], Limb - 1 - x[3], Limb - 1 - x[4]>>
\* wrapping_add, wrapping_sub, wrapping_neg
Add64(x, y) == Add64c(x, y, 0)
Sub64(x, y) == Add64c(x, Not64(y), 1)
Neg64(x) == Add64c(Not64(x), Zero64, 1)
\* The exact sum (difference) is outside i64.
AddOverflows64(x, y) == IsNeg64(x) = IsNeg64(y) /\ IsNeg64(Add64(x, y)) # IsNeg64(x)
SubOverflows64(x, y) == IsNeg64(x) # IsNeg64(y) /\ IsNeg64(Sub64(x, y)) # IsNeg64(x)

\* x < y, the bits read as unsigned numbers, and as i64.
LessU64(x, y) == \E i \in 1..4 : x[i] < y[i] /\ \A j \in (i + 1)..4 : x[j] = y[j]
Less64(x, y) == IF IsNeg64(x) # IsNeg64(y) THEN IsNeg64(x) ELSE LessU64(x, y)
\* unsigned_abs
Abs64(x) == IF IsNeg64(x) THEN Neg64(x) ELSE x

\* The product of two limbs as <<low limb, high limb>>, from the products p and q of
\* the first with the low and with the high byte of the second.
MulLimbOf(p, q) ==
    <<(p + (q % 256) * 256) % Limb, ((p + (q % 256) * 256) \div Limb) + (q \div 256)>>
MulLimb(a, b) == MulLimbOf(a * (b % 256), a * (b \div 256))
\* Limb h of the product x[i] * y[j] (i, j from 0), nothing for a j outside 0..3.
MulPart(x, y, i, j, h) == IF j \in 0..3 THEN MulLimb(x[i + 1], y[j + 1])[h] ELSE 0
\* Column k of the schoolbook product: the low limbs of the products x[i] * y[j]
\* with i + j = k and the high limbs of those with i + j = k - 1, for i from `from`.
RECURSIVE MulColumn(_, _, _, _)
MulColumn(x, y, k, from) ==
    IF from = 4 THEN 0
    ELSE MulPart(x, y, from, k - from, 1) + MulPart(x, y, from, k - 1 - from, 2)
            + MulColumn(x, y, k, from + 1)
RECURSIVE MulColumns(_, _, _, _)
\* The limb of column k, whose sum with the carry is s, and the columns above it.
MulCarry(x, y, k, s) == <<s % Limb>> \o MulColumns(x, y, k + 1, s \div Limb)
MulColumns(x, y, k, carry) ==
    IF k = 8 THEN <<>> ELSE MulCarry(x, y, k, MulColumn(x, y, k, 0) + carry)
\* The 128 bits (eight limbs) of the product of two unsigned 64-bit numbers.
MulU128(x, y) == MulColumns(x, y, 0, 0)
\* wrapping_mul
Mul64(x, y) == SubSeq(MulU128(x, y), 1, 4)
\* The exact product, of magnitude mag and negative if neg, is outside i64.
MagnitudeOverflows(mag, neg) ==
    \/ SubSeq(mag, 5, 8) # Zero64
    \/ IF neg THEN LessU64(Min64, SubSeq(mag, 1, 4)) ELSE IsNeg64(SubSeq(mag, 1, 4))
MulOverflows64(x, y) ==
    MagnitudeOverflows(MulU128(Abs64(x), Abs64(y)), IsNeg64(x) # IsNeg64(y))

Bit64(x, i) == (x[(i \div 16) + 1] \div (2^(i % 16))) % 2
\* a without its i lowest bits is zero.
HighZero(a, i) ==
    \A j \in 1..4 : IF j > (i \div 16) + 1 THEN a[j] = 0
                    ELSE j < (i \div 16) + 1 \/ a[j] \div (2^(i % 16)) = 0
\* One step of the long division of unsigned numbers by b: q is the quotient so
\* far and down the remainder so far with the next bit brought down.
DivPick(q, down, b) ==
    IF LessU64(down, b) THEN [q |-> Add64c(q, q, 0), r |-> down]
    ELSE [q |-> Add64c(q, q, 1), r |-> Sub64(down, b)]
DivBit(up, b, bit) == DivPick(up.q, Add64c(up.r, up.r, bit), b)
\* The quotient and the remainder of a without its i lowest bits by b.
RECURSIVE DivBits(_, _, _)
DivBits(a, b, i) ==
    IF i = 64 \/ HighZero(a, i) THEN [q |-> Zero64, r |-> Zero64]
    ELSE DivBit(DivBits(a, b, i + 1), b, Bit64(a, i))
DivU64(a, b) == DivBits(a, b, 0)
Signed64(x, neg) == IF neg THEN Neg64(x) ELSE x
\* wrapping_div and wrapping_rem for a divisor other than zero: the quotient is
\* truncated towards zero and the remainder has the sign of the dividend.
Div64(a, b) == Signed64(DivU64(Abs64(a), Abs64(b)).q, IsNeg64(a) # IsNeg64(b))
Rem64(a, b) == Signed64(DivU64(Abs64(a), Abs64(b)).r, IsNeg64(a))

\* Limb i (from 1) of x, and `outside` beyond the four limbs.
LimbAt(x, i, outside) == IF i \in 1..4 THEN x[i] ELSE outside
\* x << s for 0 <= s <= 63: limb i takes the low bits of limb i - s div 16 and the
\* high bits of the limb below it.
Shl64(x, s) ==
    LET k == s \div 16
        r == s % 16
        limb(i) == ((LimbAt(x, i - k, 0) % (2^(16 - r))) * (2^r))
                       + (LimbAt(x, i - k - 1, 0) \div (2^(16 - r)))
    IN  <<limb(1), limb(2), limb(3), limb(4)>>
\* The arithmetic x >> s for 0 <= s <= 63: the vacated bits take the sign.
Shr64(x, s) ==
    LET k == s \div 16
        r == s % 16
        sign == IF IsNeg64(x) THEN Limb - 1 ELSE 0
        limb(i) == (LimbAt(x, i + k, sign) \div (2^r))
                       + ((LimbAt(x, i + k + 1, sign) % (2^r)) * (2^(16 - r)))
    IN  <<limb(1), limb(2), limb(3), limb(4)>>

\* &, | and ^ on the low n bits of two limbs, and on i64.
RECURSIVE BitOp(_, _, _, _)
BitOp(o, a, b, n) ==
    IF n = 0 THEN 0
    ELSE LET x == a % 2
             y == b % 2
             z == CASE o = "And" -> x * y
                    [] o = "Or" -> x + y - x * y
                    [] o = "Xor" -> (x + y) % 2
         IN  z + 2 * BitOp(o, a \div 2, b \div 2, n - 1)
Bitwise64(o, x, y) ==
    <<BitOp(o, x[1], y[1], 16), BitOp(o, x[2], y[2], 16),
      BitOp(o, x[3], y[3], 16), BitOp(o, x[4], y[4], 16)>>

RECURSIVE DecimalDigits(_)
DecimalDigits(n) ==
    IF n < 10 THEN <<[d \in 0..9 |-> <<"0","1","2","3","4","5","6","7","8","9">>[d + 1]][n]>>
    ELSE DecimalDigits(n \div 10) \o DecimalDigits(n % 10)

\* The quotient and the remainder of an unsigned 64-bit number by d < 2^15.
DivSmall(x, d) ==
    LET t4 == x[4]
        t3 == (t4 % d) * Limb + x[3]
        t2 == (t3 % d) * Limb + x[2]
        t1 == (t2 % d) * Limb + x[1]
    IN  [q |-> <<t1 \div d, t2 \div d, t3 \div d, t4 \div d>>, r |-> t1 % d]
RECURSIVE DecimalDigits64(_)
DigitsAfter(d) ==
    IF d.q = Zero64 THEN DecimalDigits(d.r) ELSE DecimalDigits64(d.q) \o DecimalDigits(d.r)
DecimalDigits64(x) == DigitsAfter(DivSmall(x, 10))

\* Primitive::pretty_print of an integer value: its decimal text, as format!("{}") gives it.
pretty_print(p) ==
    IF p.tag = "Long"
    THEN IF IsNeg64(p.v) THEN <<"-">> \o DecimalDigits64(Neg64(p.v)) ELSE DecimalDigits64(p.v)
    ELSE IF p.tag = "Int"
    THEN IF p.v = -2147483647 - 1 THEN <<"-">> \o DecimalDigits64(Neg64(I64(p.v)))
         ELSE IF p.v < 0 THEN <<"-">> \o DecimalDigits(0 - p.v) ELSE DecimalDigits(p.v)
    ELSE IF p.tag = "Null" THEN <<"n","u","l","l">>
    ELSE <<"@">> \o DecimalDigits(p.v)

(***************************************************************************)
(* Strings of the programs under test, as character sequences.             *)
(***************************************************************************)
S_A == <<"A">>
S_B == <<"B">>
S_System == <<"j","a","v","a","/","l","a","n","g","/","S","y","s","t","e","m">>
S_PrintStream == <<"j","a","v","a","/","i","o","/","P","r","i","n","t","S","t","r","e","a","m">>
S_Other == <<"j","a","v","a","/","l","a","n","g","/","M","a","t","h">>
S_println == <<"p","r","i","n","t","l","n">>
S_flush == <<"f","l","u","s","h">>
S_out == <<"o","u","t">>
S_main == <<"m","a","i","n">>
S_clinit == <<"<","c","l","i","n","i","t",">">>
S_init == <<"<","i","n","i","t",">">>
S_f == <<"f">>
S_g == <<"g">>
S_h == <<"h">>
S_k == <<"k">>
S_r == <<"r">>
S_n == <<"n">>
S_get == <<"g","e","t">>
S_x == <<"x">>
S_v == <<"v">>
S_y == <<"y">>
S_sum == <<"s","u","m">>
S_Object == <<"j","a","v","a","/","l","a","n","g","/","O","b","j","e","c","t">>
D_V == <<"(",")","V">>
D_I == <<"(",")","I">>
D_I_V == <<"(","I",")","V">>
D_II_I == <<"(","I","I",")","I">>
D_II_V == <<"(","I","I",")","V">>
D_J_V == <<"(","J",")","V">>
D_Str_V == <<"(","L","j","a","v","a","/","l","a","n","g","/","S","t","r","i","n","g",";",")","V">>
D_StrArr_V == <<"(","[","L","j","a","v","a","/","l","a","n","g","/","S","t","r","i","n","g",";",")","V">>
D_Int == <<"I">>
D_PS == <<"L","j","a","v","a","/","i","o","/","P","r","i","n","t","S","t","r","e","a","m",";">>

\* "main([Ljava/lang/String;)V" and "<clinit>()V", the keys run() looks up.
MainKey == S_main \o D_StrArr_V
ClinitKey == S_clinit \o D_V

(***************************************************************************)
(* Constant pool (java_class.rs).  Indices are 1-based; Rust indexes the    *)
(* vector with index - 1, which is the sequence index here.                *)
(***************************************************************************)
Utf8(s) == [kind |-> "Utf8", s |-> s, i |-> 0, j |-> 0, l |-> Zero64]
CpClass(i) == [kind |-> "Class", s |-> <<>>, i |-> i, j |-> 0, l |-> Zero64]
NameAndType(i, j) == [kind |-> "NameAndType", s |-> <<>>, i |-> i, j |-> j, l |-> Zero64]
MethodRef(i, j) == [kind |-> "MethodRef", s |-> <<>>, i |-> i, j |-> j, l |-> Zero64]
FieldRef(i, j) == [kind |-> "FieldRef", s |-> <<>>, i |-> i, j |-> j, l |-> Zero64]
CpInteger(n) == [kind |-> "Integer", s |-> <<>>, i |-> n, j |-> 0, l |-> Zero64]
CpLong(l) == [kind |-> "Long", s |-> <<>>, i |-> 0, j |-> 0, l |-> l]

NoneStr == <<"?">>

\* ConstantPoolEntry::class_parser: Class -> Utf8.
class_parser(index, cp) ==
    IF index \in 1..Len(cp) /\ cp[index].kind = "Class"
       /\ cp[index].i \in 1..Len(cp) /\ cp[cp[index].i].kind = "Utf8"
    THEN cp[cp[index].i].s
    ELSE NoneStr

\* ConstantPoolEntry::name_and_type_parser: NameAndType -> (Utf8, Utf8).
name_and_type_parser(index, cp) ==
    IF index \in 1..Len(cp) /\ cp[index].kind = "NameAndType"
       /\ cp[index].i \in 1..Len(cp) /\ cp[cp[index].i].kind = "Utf8"
       /\ cp[index].j \in 1..Len(cp) /\ cp[cp[index].j].kind = "Utf8"
    THEN <<cp[cp[index].i].s, cp[cp[index].j].s>>
    ELSE <<NoneStr, NoneStr>>

\* ConstantPoolEntry::method_ref_parser: (class, name, descriptor), or <<>> for None.
method_ref_parser(index, cp) ==
    IF index \in 1..Len(cp) /\ cp[index].kind = "MethodRef"
    THEN <<class_parser(cp[index].i, cp)>> \o name_and_type_parser(cp[index].j, cp)
    ELSE <<>>

\* ConstantPoolEntry::field_ref_parser: (class, name, descriptor), or <<>> for None.
field_ref_parser(index, cp) ==
    IF index \in 1..Len(cp) /\ cp[index].kind = "FieldRef"
    THEN <<class_parser(cp[index].i, cp)>> \o name_and_type_parser(cp[index].j, cp)
    ELSE <<>>

\* The member references of the programs under test: <<kind, class, name, descriptor>>.
Refs == <<
    <<"MethodRef", S_A, S_f, D_II_I>>,
    <<"MethodRef", S_A, S_g, D_V>>,
    <<"MethodRef", S_A, S_h, D_Str_V>>,
    <<"MethodRef", S_A, S_k, D_J_V>>,
    <<"MethodRef", S_A, S_r, D_I>>,
    <<"MethodRef", S_A, S_n, D_V>>,
    <<"MethodRef", S_B, S_init, D_I_V>>,
    <<"MethodRef", S_B, S_get, D_I>>,
    <<"MethodRef", S_PrintStream, S_println, D_I_V>>,
    <<"MethodRef", S_PrintStream, S_flush, D_V>>,
    <<"FieldRef", S_System, S_out, D_PS>>,
    <<"FieldRef", S_Other, S_x, D_Int>>,
    <<"FieldRef", S_A, S_x, D_Int>>,
    <<"FieldRef", S_B, S_v, D_Int>>,
    <<"MethodRef", S_B, S_init, D_II_V>>,
    <<"MethodRef", S_B, S_sum, D_I>>,
    <<"FieldRef", S_B, S_y, D_Int>>,
    <<"MethodRef", S_Object, S_init, D_V>>,
    <<"MethodRef", S_B, S_flush, D_V>> >>

\* Every reference takes six consecutive entries: Utf8 class name, Class, Utf8 name,
\* Utf8 descriptor, NameAndType, MethodRef or FieldRef.
PoolEntry(n) ==
    LET k == (n - 1) \div 6 + 1
        base == (k - 1) * 6
        slot == n - base
        ref == Refs[k]
    IN  CASE slot = 1 -> Utf8(ref[2])
          [] slot = 2 -> CpClass(base + 1)
          [] slot = 3 -> Utf8(ref[3])
          [] slot = 4 -> Utf8(ref[4])
          [] slot = 5 -> NameAndType(base + 3, base + 4)
          [] OTHER -> IF ref[1] = "MethodRef" THEN MethodRef(base + 2, base + 5)
                                              ELSE FieldRef(base + 2, base + 5)
\* The numeric constants of the programs follow the references.
Numbers ==
    <<CpInteger(2147483647), CpInteger(-2147483647 - 1), CpInteger(46341),
      CpLong(Min64), CpLong(Max64), CpLong(I64(-1)), CpLong(I64(2)), CpLong(I64(5)),
      CpLong(I64(-7)), CpLong(I64(-8))>>
ConstantPool ==
    [n \in 1..(6 * Len(Refs) + Len(Numbers)) |->
        IF n <= 6 * Len(Refs) THEN PoolEntry(n) ELSE Numbers[n - 6 * Len(Refs)]]

\* The constant pool index of a member reference.
CpIndex(kind, cls, name, desc) ==
    CHOOSE i \in 1..Len(ConstantPool) :
        /\ ConstantPool[i].kind = kind
        /\ <<class_parser(ConstantPool[i].i, ConstantPool)>>
             \o name_and_type_parser(ConstantPool[i].j, ConstantPool) = <<cls, name, desc>>

(***************************************************************************)
(* Instructions (the typed Instruction enum that step() dispatches on).    *)
(***************************************************************************)
Ins(op, a, b, t) == [op |-> op, a |-> a, b |-> b, t |-> t, u |-> ""]
Nop == Ins("Nop", 0, 0, "")
AConstNull == Ins("AConstNull", 0, 0, "")
\* A Long constant is held by its value as an integer: lconst_0 and lconst_1 are the
\* only ones the decoder produces.
Const(p) == Ins("Const", IF p.tag = "Long" THEN ToI32(p.v) ELSE p.v, 0, p.tag)
Load(i, t) == Ins("Load", i, 0, t)
Store(i, t) == Ins("Store", i, 0, t)
ALoad(t) == Ins("ALoad", 0, 0, t)
AStore(t) == Ins("AStore", 0, 0, t)
IInc(i, c) == Ins("IInc", i, c, "")
Math(op, t) == Ins(op, 0, 0, t)
If(off, cmp) == Ins("If", off, 0, cmp)
IfICmp(off, cmp) == Ins("IfICmp", off, 0, cmp)
IfNull(off) == Ins("IfNull", off, 0, "")
IfNonNull(off) == Ins("IfNonNull", off, 0, "")
Goto(off) == Ins("Goto", off, 0, "")
Jsr(off) == Ins("Jsr", off, 0, "")
Ret(i) == Ins("Ret", i, 0, "")
Return(t) == Ins("Return", 0, 0, t)
GetStatic(i) == Ins("GetStatic", i, 0, "")
PutStatic(i) == Ins("PutStatic", i, 0, "")
GetField(i) == Ins("GetField", i, 0, "")
PutField(i) == Ins("PutField", i, 0, "")
InvokeVirtual(i) == Ins("InvokeVirtual", i, 0, "")
InvokeSpecial(i) == Ins("InvokeSpecial", i, 0, "")
InvokeStatic(i) == Ins("InvokeStatic", i, 0, "")
New(i) == Ins("New", i, 0, "")
NewArray(t) == Ins("NewArray", 0, 0, t)
ArrayLength == Ins("ArrayLength", 0, 0, "")
LoadConst(i) == Ins("LoadConst", i, 0, "")
Convert(from, to) == [op |-> "Convert", a |-> 0, b |-> 0, t |-> from, u |-> to]
Simple(op) == Ins(op, 0, 0, "")
NoIns == Simple("None")

(***************************************************************************)
(* The machine: the fields of Jvm that step() reads and writes.            *)
(***************************************************************************)
EmptyMap == [k \in {} |-> PNull]
MapInsert(f, k, v) == [x \in (DOMAIN f) \cup {k} |-> IF x = k THEN v ELSE f[x]]

\* StackFrame with pc = 0, as run() and the invokes build it.
NewFrame(locals, method, class_name) ==
    [pc |-> 0, locals |-> locals, arrays |-> <<>>, stack |-> <<>>,
     method |-> method, class_name |-> class_name]

Top(m) == m.stack_frames[Len(m.stack_frames)]
SetTop(m, f) == [m EXCEPT !.stack_frames[Len(m.stack_frames)] = f]
WithStack(m, s) == SetTop(m, [Top(m) EXCEPT !.stack = s])
Peek(s) == s[Len(s)]
Rest(s) == SubSeq(s, 1, Len(s) - 1)
Drop(s, n) == SubSeq(s, 1, Len(s) - n)
Reverse(s) == [i \in 1..Len(s) |-> s[Len(s) + 1 - i]]

\* The three ways a call of step() ends: Ok(()), Err(String), or a panic.
Ok(m) == [m |-> m, res |-> "Ok", err |-> ""]
Err(m, e) == [m |-> m, res |-> "Err", err |-> e]
Panic(m, e) == [m |-> m, res |-> "Panic", err |-> e]

E_StackEmpty == "Stack is empty"
E_ExpectedInt == "Expected int when popping from stack"
E_ExpectedLong == "Expected long when popping from stack"
E_ExpectedRef == "Expected reference when popping from stack"
E_Unwrap == "called Option::unwrap() on a None value"
E_Index == "index out of bounds"
E_Overflow == "attempt to add with overflow"

\* Mutant of Advance: the fall-through forgets to advance the pc.
Advance_NoPc(m) == Ok(m)

\* The fall-through after the match: curr_sf.pc += 1; Ok(()).
Advance(m) == Ok(SetTop(m, [Top(m) EXCEPT !.pc = @ + 1]))

\* usize addition x + y carries out of 64 bits (x, y in the signed reading).
AddOverflows(x, y) ==
    \/ x < 0 /\ y < 0
    \/ x < 0 /\ y >= 0 /\ x + y >= 0
    \/ y < 0 /\ x >= 0 /\ x + y >= 0

\* curr_sf.pc += branch_offset; return Ok(()).
Branch(m, off, checks) ==
    IF AddOverflows(Top(m).pc, off) /\ checks
    THEN Panic(m, E_Overflow)
    ELSE Ok(SetTop(m, [Top(m) EXCEPT !.pc = @ + off]))

ExecNop(m, ins) == Advance(m)

ExecAConstNull(m, ins) == Advance(WithStack(m, Append(Top(m).stack, PNull)))

ExecConst(m, ins) ==
    Advance(WithStack(m, Append(Top(m).stack,
                                IF ins.t = "Long" THEN PLong(I64(ins.a))
                                ELSE [tag |-> ins.t, v |-> ins.a])))

\* Mutant of ExecLoad: the local after the named one is loaded.
ExecLoad_OffByOne(m, ins) ==
    LET f == Top(m) IN
    IF ins.a + 2 \in 1..Len(f.locals)
    THEN Advance(WithStack(m, Append(f.stack, f.locals[ins.a + 2])))
    ELSE Panic(m, E_Unwrap)

ExecLoad(m, ins) ==
    LET f == Top(m) IN
    IF ins.a + 1 \in 1..Len(f.locals)
    THEN Advance(WithStack(m, Append(f.stack, f.locals[ins.a + 1])))
    ELSE Panic(m, E_Unwrap)

\* Vec::resize(index + 1, Null) when the locals are too short.
Resize(v, n) == [i \in 1..n |-> IF i <= Len(v) THEN v[i] ELSE PNull]

ExecStore(m, ins) ==
    LET f == Top(m)
        locals == IF Len(f.locals) <= ins.a THEN Resize(f.locals, ins.a + 1) ELSE f.locals
        grown == SetTop(m, [f EXCEPT !.locals = locals])
    IN  IF f.stack = <<>>
        THEN Err(grown, E_StackEmpty)
        ELSE Advance(SetTop(m, [f EXCEPT !.locals = [locals EXCEPT ![ins.a + 1] = Peek(f.stack)],
                                         !.stack = Rest(f.stack)]))

ExecPop(m, ins) ==
    LET s == Top(m).stack IN
    Advance(WithStack(m, IF s = <<>> THEN s ELSE Rest(s)))

ExecPop2(m, ins) ==
    LET s == Top(m).stack IN
    IF s = <<>> THEN Err(m, E_StackEmpty)
    ELSE IF is_wide(Peek(s)) THEN Advance(WithStack(m, Rest(s)))
    ELSE Advance(WithStack(m, IF Len(s) = 1 THEN <<>> ELSE Drop(s, 2)))

\* The Dup family and Swap: pop n values with pop_primitive (each pop lost when a
\* later one fails), then push the values at the given positions, counted from the
\* deepest popped value (1) to the top (n).
Shuffle(m, n, order) ==
    LET s == Top(m).stack IN
    IF Len(s) < n
    THEN Err(WithStack(m, <<>>), E_StackEmpty)
    ELSE LET base == Drop(s, n)
             popped == SubSeq(s, Len(s) - n + 1, Len(s))
         IN  Advance(WithStack(m, base \o [i \in 1..Len(order) |-> popped[order[i]]]))

ExecDup_Once(m, ins) == Shuffle(m, 1, <<1>>)
ExecDup(m, ins) == Shuffle(m, 1, <<1, 1>>)
ExecDupX1(m, ins) == Shuffle(m, 2, <<2, 1, 2>>)
ExecDupX2(m, ins) == Shuffle(m, 3, <<3, 1, 2, 3>>)
ExecDup2(m, ins) == Shuffle(m, 2, <<1, 2, 1, 2>>)
ExecDup2X1(m, ins) == Shuffle(m, 3, <<2, 3, 1, 2, 3>>)
ExecDup2X2(m, ins) == Shuffle(m, 4, <<3, 4, 1, 2, 3, 4>>)
ExecSwap_SameOrder(m, ins) == Shuffle(m, 2, <<1, 2>>)
ExecSwap(m, ins) == Shuffle(m, 2, <<2, 1>>)

(***************************************************************************)
(* Arithmetic: StackFrame::math and Primitive::eval2.                      *)
(***************************************************************************)
MaxI32 == 2147483647
MinI32 == -2147483647 - 1

Abs(x) == IF x < 0 THEN 0 - x ELSE x
\* Rust integer division and remainder truncate towards zero.
TruncDiv(a, b) == IF (a < 0) = (b < 0) THEN Abs(a) \div Abs(b) ELSE 0 - (Abs(a) \div Abs(b))
TruncRem(a, b) == a - b * TruncDiv(a, b)

AddOverflowsI32(a, b) == (b > 0 /\ a > MaxI32 - b) \/ (b < 0 /\ a < MinI32 - b)
\* a + b modulo 2^32 when the exact sum is out of range.
WrappedAddI32(a, b) == IF b > 0 THEN (a + MinI32) + (b + MinI32) ELSE (a - MinI32) + (b - MinI32)

Val(p) == [ok |-> TRUE, panic |-> "", p |-> p]
Fail(e) == [ok |-> FALSE, panic |-> e, p |-> PNull]

\* i32 division for a divisor other than zero and a quotient inside i32.
DivI32(a, b) ==
    IF b = MinI32 THEN IF a = MinI32 THEN [q |-> 1, r |-> 0] ELSE [q |-> 0, r |-> a]
    ELSE IF a # MinI32 THEN [q |-> TruncDiv(a, b), r |-> TruncRem(a, b)]
    \* MinI32 = (MinI32 + 1) - 1: one less than a dividend that has a magnitude.
    ELSE IF TruncRem(a + 1, b) - 1 = 0 - Abs(b)
    THEN [q |-> TruncDiv(a + 1, b) - (IF b < 0 THEN -1 ELSE 1), r |-> 0]
    ELSE [q |-> TruncDiv(a + 1, b), r |-> TruncRem(a + 1, b) - 1]

\* The outcome of an operation whose result modulo 2^64 is r, and for Long is out of
\* range exactly if `over`: with overflow checks an overflow panics with e.
Arith(r, over, int, checks, e) ==
    IF checks /\ (IF int THEN ~FitsI32(r) ELSE over) THEN Fail(e)
    ELSE Val(IF int THEN PInt(ToI32(r)) ELSE PLong(r))

\* Primitive::eval2 on the integer types. The operator is matched first, then the
\* pair of operands: both of the same type, or for a shift a value and an Int count.
\* An arithmetic overflow panics in a build with overflow checks and wraps in one
\* without; a zero divisor and MIN / -1 panic in every build.
eval2(a, b, o, checks) ==
    IF o \notin {"Add", "Sub", "Mul", "Div", "Rem", "And", "Or", "Xor", "Shl", "Shr", "UShr"}
    THEN Fail("unsupported operation")
    ELSE IF ~(a.tag \in {"Int", "Long"}
              /\ b.tag = (IF o \in {"Shl", "Shr", "UShr"} THEN "Int" ELSE a.tag))
    THEN Fail("Unsupported operation")
    ELSE LET int == a.tag = "Int"
             x == IF int THEN I64(a.v) ELSE a.v
             y == IF int \/ o \in {"Shl", "Shr", "UShr"} THEN I64(b.v) ELSE b.v
             mk(r) == Val(IF int THEN PInt(ToI32(r)) ELSE PLong(r))
             bits == IF int THEN 32 ELSE 64
             shift(r, e) == IF checks /\ b.v \notin 0..(bits - 1) THEN Fail(e) ELSE mk(r)
             lowest == IF int THEN I64(MinI32) ELSE Min64
         IN
    CASE o = "Add" ->
            IF int
            THEN IF AddOverflowsI32(a.v, b.v)
                 THEN IF checks THEN Fail(E_Overflow) ELSE Val(PInt(WrappedAddI32(a.v, b.v)))
                 ELSE Val(PInt(a.v + b.v))
            ELSE Arith(Add64(x, y), AddOverflows64(x, y), int, checks, E_Overflow)
      [] o = "Sub" ->
            Arith(Sub64(x, y), SubOverflows64(x, y), int, checks,
                  "attempt to subtract with overflow")
      [] o = "Mul" ->
            Arith(Mul64(x, y), MulOverflows64(x, y), int, checks,
                  "attempt to multiply with overflow")
      [] o = "Div" ->
            IF y = Zero64 THEN Fail("attempt to divide by zero")
            ELSE IF x = lowest /\ y = I64(-1) THEN Fail("attempt to divide with overflow")
            ELSE IF int THEN Val(PInt(DivI32(a.v, b.v).q))
            ELSE Val(PLong(Div64(x, y)))
      [] o = "Rem" ->
            IF y = Zero64
            THEN Fail("attempt to calculate the remainder with a divisor of zero")
            ELSE IF x = lowest /\ y = I64(-1)
            THEN Fail("attempt to calculate the remainder with overflow")
            ELSE IF int THEN Val(PInt(DivI32(a.v, b.v).r))
            ELSE Val(PLong(Rem64(x, y)))
      [] o \in {"And", "Or", "Xor"} -> mk(Bitwise64(o, x, y))
      [] o = "Shl" -> shift(Shl64(x, b.v % bits), "attempt to shift left with overflow")
      \* UShr is the same arithmetic shift as Shr.
      [] o \in {"Shr", "UShr"} ->
            shift(Shr64(x, b.v % bits), "attempt to shift right with overflow")

MathOps == {"Add", "Sub", "Mul", "Div", "Rem", "Neg", "Shl", "Shr", "UShr", "And", "Or", "Xor"}

\* The machine `popped` after the evaluation r: a panic, or the result pushed.
PushResult(popped, r) ==
    IF ~r.ok THEN Panic(popped, r.panic)
    ELSE Advance(WithStack(popped, Append(Top(popped).stack, r.p)))

\* Mutant of ExecMath: the value popped first is taken for value1.
ExecMath_PopOrder(m, ins, checks) ==
    LET s == Top(m).stack IN
    IF Len(s) < 2 THEN Err(WithStack(m, <<>>), E_StackEmpty)
    ELSE IF ~is_type(s[Len(s)], ins.t)
    THEN Err(WithStack(m, Drop(s, 2)), "mismatched operand type for stack frame math function")
    ELSE PushResult(WithStack(m, Drop(s, 2)), eval2(s[Len(s)], s[Len(s) - 1], ins.op, checks))

\* StackFrame::math
ExecMath(m, ins, checks) ==
    LET s == Top(m).stack IN
    IF Len(s) < 2 THEN Err(WithStack(m, <<>>), E_StackEmpty)
    ELSE IF ~is_type(s[Len(s) - 1], ins.t)
    THEN Err(WithStack(m, Drop(s, 2)), "mismatched operand type for stack frame math function")
    ELSE PushResult(WithStack(m, Drop(s, 2)), eval2(s[Len(s) - 1], s[Len(s)], ins.op, checks))

\* The machine after the evaluation r of the new value of local variable i.
StoreResult(m, i, r) ==
    IF ~r.ok THEN Panic(m, r.panic)
    ELSE Advance(SetTop(m, [Top(m) EXCEPT !.locals[i + 1] = r.p]))

ExecIInc(m, ins, checks) ==
    IF ~(ins.a + 1 \in 1..Len(Top(m).locals)) THEN Panic(m, E_Unwrap)
    ELSE StoreResult(m, ins.a, eval2(Top(m).locals[ins.a + 1], PInt(ins.b), "Add", checks))

ExecLCmp(m, ins, checks) ==
    LET s == Top(m).stack IN
    IF s = <<>> THEN Err(m, E_StackEmpty)
    ELSE IF Peek(s).tag # "Long" THEN Err(WithStack(m, Rest(s)), E_ExpectedLong)
    ELSE IF Len(s) = 1 THEN Err(WithStack(m, <<>>), E_StackEmpty)
    ELSE IF s[Len(s) - 1].tag # "Long" THEN Err(WithStack(m, Drop(s, 2)), E_ExpectedLong)
    ELSE LET second == s[Len(s)].v
             first == s[Len(s) - 1].v
             difference == Sub64(first, second)
             result == IF difference = Zero64 THEN 0
                       ELSE IF ~IsNeg64(difference) THEN 1 ELSE -1
         IN  IF checks /\ SubOverflows64(first, second)
             THEN Panic(WithStack(m, Drop(s, 2)), "attempt to subtract with overflow")
             ELSE Advance(WithStack(m, Append(Drop(s, 2), PInt(result))))

(***************************************************************************)
(* Comparisons and branches.                                               *)
(***************************************************************************)
Compare(x, y, cmp) ==
    CASE cmp = "Equal" -> x = y
      [] cmp = "NotEqual" -> x # y
      [] cmp = "LessThan" -> x < y
      [] cmp = "GreaterThan" -> x > y
      [] cmp = "LessThanOrEqual" -> x <= y
      [] OTHER -> x >= y

\* Primitive::compare_to_zero: an Int compared with zero; another tag is an error.
compare_to_zero(p, cmp) ==
    IF p.tag = "Int" THEN [ok |-> TRUE, b |-> Compare(p.v, 0, cmp)]
    ELSE [ok |-> FALSE, b |-> FALSE]

\* Primitive::integer_compare: two Ints compared; another tag is an error.
integer_compare(p, q, cmp) ==
    IF p.tag = "Int" /\ q.tag = "Int" THEN [ok |-> TRUE, b |-> Compare(p.v, q.v, cmp)]
    ELSE [ok |-> FALSE, b |-> FALSE]

ExecIf(m, ins, checks) ==
    LET s == Top(m).stack IN
    IF s = <<>> THEN Err(m, E_StackEmpty)
    ELSE LET popped == WithStack(m, Rest(s))
             c == compare_to_zero(Peek(s), ins.t)
         IN  IF ~c.ok THEN Err(popped, "Cannot compare to zero")
             ELSE IF c.b THEN Branch(popped, ins.a, checks)
             ELSE Advance(popped)

ExecIfICmp(m, ins, checks) ==
    LET s == Top(m).stack IN
    IF Len(s) < 2 THEN Err(WithStack(m, <<>>), E_StackEmpty)
    ELSE LET popped == WithStack(m, Drop(s, 2))
             c == integer_compare(s[Len(s) - 1], s[Len(s)], ins.t)
         IN  IF ~c.ok THEN Err(popped, "Cannot compare non-integers")
             ELSE IF c.b THEN Branch(popped, ins.a, checks)
             ELSE Advance(popped)

\* Mutant of ExecIfNull: the check looks at the payload, and takes the first object or
\* array for null.
ExecIfNull_Payload(m, ins, checks) ==
    LET s == Top(m).stack IN
    IF s = <<>> THEN Err(m, E_StackEmpty)
    ELSE IF is_type(Peek(s), "Null") \/ Peek(s) = PReference(0)
    THEN Branch(WithStack(m, Rest(s)), ins.a, checks)
    ELSE Advance(WithStack(m, Rest(s)))

ExecIfNull(m, ins, checks) ==
    LET s == Top(m).stack IN
    IF s = <<>> THEN Err(m, E_StackEmpty)
    ELSE IF is_type(Peek(s), "Null") THEN Branch(WithStack(m, Rest(s)), ins.a, checks)
    ELSE Advance(WithStack(m, Rest(s)))

ExecIfNonNull(m, ins, checks) ==
    LET s == Top(m).stack IN
    IF s = <<>> THEN Err(m, E_StackEmpty)
    ELSE IF ~is_type(Peek(s), "Null") THEN Branch(WithStack(m, Rest(s)), ins.a, checks)
    ELSE Advance(WithStack(m, Rest(s)))

ExecGoto(m, ins, checks) == Branch(m, ins.a, checks)

ExecJsr(m, ins, checks) ==
    Branch(WithStack(m, Append(Top(m).stack, PReference(Top(m).pc + 1))), ins.a, checks)

ExecRet(m, ins) ==
    LET f == Top(m) IN
    IF ~(ins.a + 1 \in 1..Len(f.locals)) THEN Panic(m, E_Unwrap)
    ELSE IF f.locals[ins.a + 1].tag = "Reference"
         THEN Ok(SetTop(m, [f EXCEPT !.pc = f.locals[ins.a + 1].v]))
         ELSE Err(m, "Invalid return address")

(***************************************************************************)
(* Return.                                                                 *)
(***************************************************************************)
\* Mutant of PopFrame: the oldest frame is removed instead of the newest.
PopFrame_Bottom(m) == [m EXCEPT !.stack_frames = Tail(m.stack_frames)]

PopFrame(m) == [m EXCEPT !.stack_frames = Rest(m.stack_frames)]

\* Mutant of ExecReturn: the tag of the returned value is not compared with the
\* declared type.
ExecReturn_NoTypeCheck(m, ins) ==
    LET s == Top(m).stack IN
    IF ins.t = "Null" THEN Ok(PopFrame(m))
    ELSE IF s = <<>> THEN Err(m, E_StackEmpty)
    ELSE LET return_value == Peek(s)
             caller == PopFrame(WithStack(m, Rest(s)))
         IN  IF caller.stack_frames = <<>> THEN Ok(caller)
             ELSE Ok(WithStack(caller, Append(Top(caller).stack, return_value)))

ExecReturn(m, ins) ==
    LET s == Top(m).stack IN
    IF ins.t = "Null" THEN Ok(PopFrame(m))
    ELSE IF s = <<>> THEN Err(m, E_StackEmpty)
    ELSE LET return_value == Peek(s)
             popped == WithStack(m, Rest(s))
             caller == PopFrame(popped)
         IN  IF ~is_type(return_value, ins.t)
             THEN Err(popped, "Attempted to return an invalid type")
             ELSE IF caller.stack_frames = <<>> THEN Ok(caller)
             ELSE Ok(WithStack(caller, Append(Top(caller).stack, return_value)))

(***************************************************************************)
(* Typed pops: pop_primitive, pop_int, pop_long and pop_ref in a row.  A   *)
(* failing pop leaves the earlier pops done (and, for a tag mismatch, its  *)
(* own value popped as well).  vals are in pop order.                      *)
(***************************************************************************)
RECURSIVE PopSeq(_, _)
PopSeq(s, kinds) ==
    IF kinds = <<>> THEN [ok |-> TRUE, err |-> "", stack |-> s, vals |-> <<>>]
    ELSE IF s = <<>> THEN [ok |-> FALSE, err |-> E_StackEmpty, stack |-> s, vals |-> <<>>]
    ELSE LET v == Peek(s)
             k == Head(kinds)
         IN  IF k = "int" /\ v.tag # "Int"
             THEN [ok |-> FALSE, err |-> E_ExpectedInt, stack |-> Rest(s), vals |-> <<>>]
             ELSE IF k = "long" /\ v.tag # "Long"
             THEN [ok |-> FALSE, err |-> E_ExpectedLong, stack |-> Rest(s), vals |-> <<>>]
             ELSE IF k = "ref" /\ v.tag # "Reference"
             THEN [ok |-> FALSE, err |-> E_ExpectedRef, stack |-> Rest(s), vals |-> <<>>]
             ELSE LET r == PopSeq(Rest(s), Tail(kinds))
                  IN  [r EXCEPT !.vals = <<v>> \o r.vals]

Times(n, k) == [i \in 1..n |-> k]

(***************************************************************************)
(* Static and instance fields.                                             *)
(***************************************************************************)
CurPool(m) == m.class_area[Top(m).class_name].constant_pool

ExecGetStatic(m, ins) ==
    LET ref == field_ref_parser(ins.a, CurPool(m)) IN
    IF ref = <<>> THEN Err(m, "Invalid static field reference for GetStatic")
    ELSE IF ref[1] \in DOMAIN m.class_area
         THEN IF ref[2] \in DOMAIN m.class_area[ref[1]].static_fields
              THEN Advance(WithStack(m, Append(Top(m).stack,
                                               m.class_area[ref[1]].static_fields[ref[2]])))
              ELSE Panic(m, E_Unwrap)
         ELSE IF ref[1] = S_System THEN Advance(m)
         ELSE Err(m, "Unable to find static field")

\* Mutant of ExecPutStatic: the field is stored in the class of the running method.
ExecPutStatic_OwnClass(m, ins) ==
    LET p == PopSeq(Top(m).stack, <<"any">>)
        popped == WithStack(m, p.stack)
        ref == field_ref_parser(ins.a, CurPool(m))
    IN  IF ~p.ok THEN Err(popped, p.err)
        ELSE IF ref = <<>> THEN Err(popped, "Invalid static field reference for PutStatic")
        ELSE IF ref[1] \notin DOMAIN m.class_area THEN Err(popped, "Unable to find class")
        ELSE Advance([popped EXCEPT !.class_area[Top(m).class_name].static_fields =
                                        MapInsert(@, ref[2], p.vals[1])])

ExecPutStatic(m, ins) ==
    LET p == PopSeq(Top(m).stack, <<"any">>)
        popped == WithStack(m, p.stack)
        ref == field_ref_parser(ins.a, CurPool(m))
    IN  IF ~p.ok THEN Err(popped, p.err)
        ELSE IF ref = <<>> THEN Err(popped, "Invalid static field reference for PutStatic")
        ELSE IF ref[1] \notin DOMAIN m.class_area THEN Err(popped, "Unable to find class")
        ELSE Advance([popped EXCEPT !.class_area[ref[1]].static_fields =
                                        MapInsert(@, ref[2], p.vals[1])])

ExecGetField(m, ins) ==
    LET p == PopSeq(Top(m).stack, <<"ref">>)
        popped == WithStack(m, p.stack)
        ref == field_ref_parser(ins.a, CurPool(m))
    IN  IF ~p.ok THEN Err(popped, p.err)
        ELSE IF ref = <<>> THEN Err(popped, "Invalid field reference for GetField")
        ELSE LET object == p.vals[1].v IN
             IF ~(object + 1 \in 1..Len(m.heap)) THEN Panic(popped, E_Unwrap)
             ELSE IF ref[2] \notin DOMAIN m.heap[object + 1].fields THEN Panic(popped, E_Unwrap)
             ELSE Advance(WithStack(m, Append(p.stack, m.heap[object + 1].fields[ref[2]])))

\* Mutant of ExecPutField: the operands are popped and the object is left as it is.
ExecPutField_NoWrite(m, ins) ==
    LET p == PopSeq(Top(m).stack, <<"any", "ref">>)
        popped == WithStack(m, p.stack)
        ref == field_ref_parser(ins.a, CurPool(m))
    IN  IF ~p.ok THEN Err(popped, p.err)
        ELSE IF ref = <<>> THEN Err(popped, "Invalid field reference for PutField")
        ELSE IF ~(p.vals[2].v + 1 \in 1..Len(m.heap)) THEN Panic(popped, E_Unwrap)
        ELSE Advance(popped)

ExecPutField(m, ins) ==
    LET p == PopSeq(Top(m).stack, <<"any", "ref">>)
        popped == WithStack(m, p.stack)
        ref == field_ref_parser(ins.a, CurPool(m))
    IN  IF ~p.ok THEN Err(popped, p.err)
        ELSE IF ref = <<>> THEN Err(popped, "Invalid field reference for PutField")
        ELSE LET reference == p.vals[2].v IN
             IF ~(reference + 1 \in 1..Len(m.heap)) THEN Panic(popped, E_Unwrap)
             ELSE Advance([popped EXCEPT !.heap[reference + 1].fields =
                                             MapInsert(@, ref[2], p.vals[1])])

(***************************************************************************)
(* Method invocation.                                                      *)
(***************************************************************************)
\* method_descriptor.split(')').get(0): the text before the first ')'.
RECURSIVE SplitFirst(_, _)
SplitFirst(str, ch) ==
    IF str = <<>> \/ Head(str) = ch THEN <<>>
    ELSE <<Head(str)>> \o SplitFirst(Tail(str), ch)

\* The number of values an invoke pops for the parameters.
param_string_len(method_descriptor) == Len(SplitFirst(method_descriptor, ")")) - 1

\* Mutant of ExecIntrinsic: the buffer gets the line println!() writes, newline included.
ExecIntrinsic_Newline(m, method_name) ==
    LET s == Top(m).stack IN
    IF method_name = S_println
    THEN IF s = <<>> THEN Err(m, E_StackEmpty)
         ELSE LET value_string == pretty_print(Peek(s)) \o <<"\n">>
                  printed == [m EXCEPT !.stdout = @ \o value_string]
                  after == Rest(s)
              IN  Advance(WithStack(printed, IF after = <<>> THEN after ELSE Rest(after)))
    ELSE Advance(WithStack(m, IF s = <<>> THEN s ELSE Rest(s)))

\* The println branch of InvokeVirtual / InvokeSpecial for an owner class that is
\* not loaded.
ExecIntrinsic(m, method_name) ==
    LET s == Top(m).stack IN
    IF method_name = S_println
    THEN IF s = <<>> THEN Err(m, E_StackEmpty)
         ELSE LET value_string == pretty_print(Peek(s))
                  printed == [m EXCEPT !.stdout = @ \o value_string]
                  after == Rest(s)
              IN  Advance(WithStack(printed, IF after = <<>> THEN after ELSE Rest(after)))
    ELSE Advance(WithStack(m, IF s = <<>> THEN s ELSE Rest(s)))

\* Mutant of PushCall: the frame is pushed without advancing the caller's pc.
PushCall_NoAdvance(m, ref, receiver) ==
    LET key == ref[2] \o ref[3]
        count == param_string_len(ref[3]) + receiver
        p == PopSeq(Top(m).stack, Times(count, "any"))
        popped == WithStack(m, p.stack)
    IN  IF key \notin DOMAIN m.class_area[ref[1]].methods THEN Panic(m, E_Unwrap)
        ELSE IF ~p.ok THEN Err(popped, p.err)
        ELSE LET callee == NewFrame(Reverse(p.vals), m.class_area[ref[1]].methods[key], ref[1])
             IN  Ok([popped EXCEPT !.stack_frames = Append(@, callee)])

\* The frame push shared by the invokes: pop the counted values (plus the receiver
\* when receiver = 1), reverse them into the locals, pc += 1, push the frame.
PushCall(m, ref, receiver) ==
    LET key == ref[2] \o ref[3]
        count == param_string_len(ref[3]) + receiver
        p == PopSeq(Top(m).stack, Times(count, "any"))
        popped == WithStack(m, p.stack)
    IN  IF key \notin DOMAIN m.class_area[ref[1]].methods THEN Panic(m, E_Unwrap)
        ELSE IF ~p.ok THEN Err(popped, p.err)
        ELSE LET advanced == SetTop(popped, [Top(popped) EXCEPT !.pc = @ + 1])
                 callee == NewFrame(Reverse(p.vals), m.class_area[ref[1]].methods[key], ref[1])
             IN  Ok([advanced EXCEPT !.stack_frames = Append(@, callee)])

ExecInvokeVirtual(m, ins) ==
    LET ref == method_ref_parser(ins.a, CurPool(m)) IN
    IF ref = <<>> THEN Err(m, "Method reference not found for InvokeVirtual")
    ELSE IF ref[1] \notin DOMAIN m.class_area THEN ExecIntrinsic(m, ref[2])
    ELSE PushCall(m, ref, 1)

ExecInvokeStatic(m, ins) ==
    LET ref == method_ref_parser(ins.a, CurPool(m)) IN
    IF ref = <<>> THEN Err(m, "Could not find method reference for InvokeStatic")
    ELSE IF ref[1] \notin DOMAIN m.class_area THEN Panic(m, E_Unwrap)
    ELSE PushCall(m, ref, 0)

(***************************************************************************)
(* Objects and frame-local arrays.                                         *)
(***************************************************************************)
\* Mutant of ExecNew: the reference is the heap length after the push.
ExecNew_LenAfter(m, ins) ==
    LET class_name == class_parser(ins.a, CurPool(m)) IN
    IF class_name = NoneStr THEN Panic(m, E_Unwrap)
    ELSE LET grown == [m EXCEPT !.heap = Append(@, [class_name |-> class_name,
                                                    fields |-> EmptyMap])]
         IN  Advance(WithStack(grown, Append(Top(m).stack, PReference(Len(grown.heap)))))

ExecNew(m, ins) ==
    LET class_name == class_parser(ins.a, CurPool(m)) IN
    IF class_name = NoneStr THEN Panic(m, E_Unwrap)
    ELSE LET grown == [m EXCEPT !.heap = Append(@, [class_name |-> class_name,
                                                    fields |-> EmptyMap])]
         IN  Advance(WithStack(grown, Append(Top(m).stack, PReference(Len(grown.heap) - 1))))

\* NewArray / ANewArray: Vec::with_capacity(count) is an empty vector.
ExecNewArray(m, ins) ==
    LET p == PopSeq(Top(m).stack, <<"int">>)
        popped == WithStack(m, p.stack)
    IN  IF ~p.ok THEN Err(popped, p.err)
        ELSE IF p.vals[1].v < 0 THEN Panic(popped, "capacity overflow")
        ELSE LET f == Top(popped)
                 new_array_ref == Len(f.arrays)
             IN  Advance(SetTop(m, [f EXCEPT !.arrays = Append(@, <<>>),
                                             !.stack = Append(@, PReference(new_array_ref))]))

ExecArrayLength(m, ins) ==
    LET p == PopSeq(Top(m).stack, <<"ref">>)
        popped == WithStack(m, p.stack)
    IN  IF ~p.ok THEN Err(popped, p.err)
        ELSE IF ~(p.vals[1].v + 1 \in 1..Len(Top(m).arrays)) THEN Panic(popped, E_Unwrap)
        ELSE Advance(WithStack(m, Append(p.stack, PInt(Len(Top(m).arrays[p.vals[1].v + 1])))))

\* Mutant of ExecAStore: the array is not grown to hold the index.
ExecAStore_NoGrow(m, ins) ==
    LET p == PopSeq(Top(m).stack, <<"any", "int", "ref">>)
        popped == WithStack(m, p.stack)
    IN  IF ~p.ok THEN Err(popped, p.err)
        ELSE LET value == p.vals[1]
                 index == p.vals[2].v
                 array_ref == p.vals[3].v
                 f == Top(popped)
             IN  IF ~(array_ref + 1 \in 1..Len(f.arrays)) THEN Panic(popped, "array not found")
                 ELSE IF ~(index + 1 \in 1..Len(f.arrays[array_ref + 1])) THEN Panic(popped, E_Index)
                 ELSE Advance(SetTop(m, [f EXCEPT !.arrays[array_ref + 1][index + 1] = value]))

ExecAStore(m, ins) ==
    LET p == PopSeq(Top(m).stack, <<"any", "int", "ref">>)
        popped == WithStack(m, p.stack)
    IN  IF ~p.ok THEN Err(popped, p.err)
        ELSE LET value == p.vals[1]
                 index == p.vals[2].v
                 array_ref == p.vals[3].v
                 f == Top(popped)
             IN  IF ~(array_ref + 1 \in 1..Len(f.arrays)) THEN Panic(popped, "array not found")
                 ELSE IF index < 0 THEN Panic(popped, "capacity overflow")
                 ELSE LET array == f.arrays[array_ref + 1]
                          sized == IF Len(array) <= index THEN Resize(array, index + 1) ELSE array
                      IN  Advance(SetTop(m, [f EXCEPT !.arrays[array_ref + 1] =
                                                          [sized EXCEPT ![index + 1] = value]]))

ExecALoad(m, ins) ==
    LET p == PopSeq(Top(m).stack, <<"int", "ref">>)
        popped == WithStack(m, p.stack)
    IN  IF ~p.ok THEN Err(popped, p.err)
        ELSE LET index == p.vals[1].v
                 array_ref == p.vals[2].v
                 f == Top(popped)
             IN  IF ~(array_ref + 1 \in 1..Len(f.arrays)) THEN Panic(popped, "array not found")
                 ELSE IF ~(index + 1 \in 1..Len(f.arrays[array_ref + 1]))
                      THEN Panic(popped, E_Unwrap)
                      ELSE Advance(WithStack(m, Append(p.stack, f.arrays[array_ref + 1][index + 1])))

(***************************************************************************)
(* LoadConst and Convert.                                                  *)
(***************************************************************************)
\* ConstantPoolEntry::get_primitive
get_primitive(e) ==
    CASE e.kind = "Integer" -> Val(PInt(e.i))
      [] e.kind = "Long" -> Val(PLong(e.l))
      [] e.kind = "Class" -> Val(PReference(e.i))
      [] OTHER -> Fail("Unable to convert constant pool entry to loadable primitive")

ExecLoadConst(m, ins) ==
    IF ~(ins.a \in 1..Len(CurPool(m))) THEN Panic(m, E_Unwrap)
    ELSE LET r == get_primitive(CurPool(m)[ins.a]) IN
         IF ~r.ok THEN Panic(m, r.panic)
         ELSE Advance(WithStack(m, Append(Top(m).stack, r.p)))

\* x as a two's-complement value of 2 * half values: Rust's `as i8`, `as i16`.
Narrow(x, half) == ((x + half) % (2 * half)) - half

\* Primitive::eval with Operation::Convert on the integer types.
eval_convert(a, from, to) ==
    IF a.tag # from THEN Fail("unsupported conversion or incorrect type passed")
    ELSE CASE from = "Int" /\ to = "Long" -> Val(PLong(I64(a.v)))
           [] from = "Int" /\ to = "Byte" -> Val([tag |-> "Byte", v |-> Narrow(a.v, 128)])
           [] from = "Int" /\ to = "Short" -> Val([tag |-> "Short", v |-> Narrow(a.v, 32768)])
           [] from = "Int" /\ to = "Char" -> Val([tag |-> "Char", v |-> a.v % 65536])
           [] from = "Long" /\ to = "Int" -> Val(PInt(ToI32(a.v)))
           [] OTHER -> Fail("cannot convert to passed type")

ExecConvert(m, ins) ==
    LET s == Top(m).stack IN
    IF s = <<>> THEN Err(m, E_StackEmpty)
    ELSE LET r == eval_convert(Peek(s), ins.t, ins.u) IN
         IF ~r.ok THEN Panic(WithStack(m, Rest(s)), r.panic)
         ELSE Advance(WithStack(m, Append(Rest(s), r.p)))

(***************************************************************************)
(* Jvm::step                                                               *)
(***************************************************************************)
\* The match of step() on the decoded instruction.
Exec(m, ins, checks) ==
    CASE ins.op = "Nop" -> ExecNop(m, ins)
      [] ins.op = "AConstNull" -> ExecAConstNull(m, ins)
      [] ins.op = "Const" -> ExecConst(m, ins)
      [] ins.op = "LoadConst" -> ExecLoadConst(m, ins)
      [] ins.op = "Load" -> ExecLoad(m, ins)
      [] ins.op = "ALoad" -> ExecALoad(m, ins)
      [] ins.op = "Store" -> ExecStore(m, ins)
      [] ins.op = "AStore" -> ExecAStore(m, ins)
      [] ins.op = "Pop" -> ExecPop(m, ins)
      [] ins.op = "Pop2" -> ExecPop2(m, ins)
      [] ins.op = "Dup" -> ExecDup(m, ins)
      [] ins.op = "DupX1" -> ExecDupX1(m, ins)
      [] ins.op = "DupX2" -> ExecDupX2(m, ins)
      [] ins.op = "Dup2" -> ExecDup2(m, ins)
      [] ins.op = "Dup2X1" -> ExecDup2X1(m, ins)
      [] ins.op = "Dup2X2" -> ExecDup2X2(m, ins)
      [] ins.op = "Swap" -> ExecSwap(m, ins)
      [] ins.op \in MathOps -> ExecMath(m, ins, checks)
      [] ins.op = "IInc" -> ExecIInc(m, ins, checks)
      [] ins.op = "Convert" -> ExecConvert(m, ins)
      [] ins.op = "LCmp" -> ExecLCmp(m, ins, checks)
      [] ins.op = "If" -> ExecIf(m, ins, checks)
      [] ins.op = "IfICmp" -> ExecIfICmp(m, ins, checks)
      [] ins.op = "Goto" -> ExecGoto(m, ins, checks)
      [] ins.op = "Jsr" -> ExecJsr(m, ins, checks)
      [] ins.op = "Ret" -> ExecRet(m, ins)
      [] ins.op = "Return" -> ExecReturn(m, ins)
      [] ins.op = "GetStatic" -> ExecGetStatic(m, ins)
      [] ins.op = "PutStatic" -> ExecPutStatic(m, ins)
      [] ins.op = "GetField" -> ExecGetField(m, ins)
      [] ins.op = "PutField" -> ExecPutField(m, ins)
      [] ins.op \in {"InvokeVirtual", "InvokeSpecial"} -> ExecInvokeVirtual(m, ins)
      [] ins.op = "InvokeStatic" -> ExecInvokeStatic(m, ins)
      [] ins.op = "New" -> ExecNew(m, ins)
      [] ins.op \in {"NewArray", "ANewArray"} -> ExecNewArray(m, ins)
      [] ins.op = "ArrayLength" -> ExecArrayLength(m, ins)
      [] ins.op = "IfNull" -> ExecIfNull(m, ins, checks)
      [] ins.op = "IfNonNull" -> ExecIfNonNull(m, ins, checks)
      [] OTHER -> Err(m, "Unsupported instruction")

\* method.instructions.get(pc): the slot exists.
HasInstruction(f) == f.pc >= 0 /\ f.pc < Len(f.method)
Fetch(f) == IF HasInstruction(f) THEN f.method[f.pc + 1] ELSE NoIns

step(m, checks) ==
    IF m.stack_frames = <<>> THEN Err(m, "No stack frames")
    ELSE IF ~HasInstruction(Top(m)) THEN Err(m, "No instruction at current pc")
    ELSE Exec(m, Fetch(Top(m)), checks)

(***************************************************************************)
(* The programs under test.  main is Setup \o <<instruction>> \o Epilogue;  *)
(* the other methods are fixed.                                            *)
(***************************************************************************)
MRef(cls, name, desc) == CpIndex("MethodRef", cls, name, desc)
FRef(cls, name, desc) == CpIndex("FieldRef", cls, name, desc)
ClassRef(cls) == CHOOSE i \in 1..Len(ConstantPool) :
                    ConstantPool[i].kind = "Class" /\ class_parser(i, ConstantPool) = cls

M_f == <<Load(0, "Int"), Load(1, "Int"), Math("Add", "Int"), Return("Int")>>
M_g == <<Return("Null")>>
M_h == <<Return("Null")>>
M_k == <<Return("Null")>>
M_r == <<Const(PLong(I64(1))), Return("Int")>>
M_n == <<Nop>>
M_init == <<Load(0, "Reference"), Load(1, "Int"), PutField(FRef(S_B, S_v, D_Int)), Return("Null")>>
M_get == <<Load(0, "Reference"), GetField(FRef(S_B, S_v, D_Int)), Return("Int")>>
\* B(int v, int y) { super(); this.v = v; this.y = y; }
M_init2 == <<Load(0, "Reference"), InvokeSpecial(MRef(S_Object, S_init, D_V)), Nop, Nop,
             Load(0, "Reference"), Load(1, "Int"), PutField(FRef(S_B, S_v, D_Int)), Nop, Nop,
             Load(0, "Reference"), Load(2, "Int"), PutField(FRef(S_B, S_y, D_Int)), Nop, Nop,
             Return("Null")>>
\* int sum() { return v + y; }
M_sum == <<Load(0, "Reference"), GetField(FRef(S_B, S_v, D_Int)), Nop, Nop,
           Load(0, "Reference"), GetField(FRef(S_B, S_y, D_Int)), Nop, Nop,
           Math("Add", "Int"), Return("Int")>>

Fn(keys, vals) == [k \in {keys[i] : i \in 1..Len(keys)} |->
                      vals[CHOOSE i \in 1..Len(keys) : keys[i] = k]]

MkClass(name, keys, vals) ==
    [name |-> name, constant_pool |-> ConstantPool, static_fields |-> EmptyMap,
     methods |-> Fn(keys, vals)]

ClassA(main, clinit) ==
    MkClass(S_A,
            <<MainKey, S_f \o D_II_I, S_g \o D_V, S_h \o D_Str_V, S_k \o D_J_V,
              S_r \o D_I, S_n \o D_V>> \o (IF clinit = <<>> THEN <<>> ELSE <<ClinitKey>>),
            <<main, M_f, M_g, M_h, M_k, M_r, M_n>> \o (IF clinit = <<>> THEN <<>> ELSE <<clinit>>))

ClassB(main, clinit) ==
    MkClass(S_B,
            <<S_init \o D_I_V, S_get \o D_I, S_init \o D_II_V, S_sum \o D_I>>
                \o (IF main = <<>> THEN <<>> ELSE <<MainKey>>)
                \o (IF clinit = <<>> THEN <<>> ELSE <<ClinitKey>>),
            <<M_init, M_get, M_init2, M_sum>> \o (IF main = <<>> THEN <<>> ELSE <<main>>)
                \o (IF clinit = <<>> THEN <<>> ELSE <<clinit>>))

I_println == InvokeVirtual(MRef(S_PrintStream, S_println, D_I_V))
I_getout == GetStatic(FRef(S_System, S_out, D_PS))
I_newB == New(ClassRef(S_B))
I_initB == InvokeSpecial(MRef(S_B, S_init, D_I_V))

\* Code that brings the operand stack (and the heap) into a shape to start from.
Setups == {
    <<>>,
    <<Const(PInt(3))>>,
    <<Const(PInt(3)), Const(PInt(5))>>,
    <<Const(PInt(-4)), Const(PInt(0))>>,
    <<AConstNull>>,
    <<AConstNull, Const(PInt(42))>>,
    <<Const(PInt(7)), I_getout, Const(PInt(-15))>>,
    <<Const(PLong(I64(2))), Const(PLong(I64(9)))>>,
    <<Const(PInt(1)), Store(1, "Int"), I_newB, Const(PInt(6))>>,
    <<I_newB, Simple("Dup"), Const(PInt(6)), I_initB, Nop, Nop>>,
    <<Const(PInt(2)), NewArray("Int"), Const(PInt(0)), Const(PInt(8))>>,
    <<Jsr(2), Ret(0), Store(0, "Reference")>> }

\* The instruction executed after the setup.
Alphabet ==
    {Nop, AConstNull, Const(PInt(1)), Const(PLong(I64(1))), LoadConst(ClassRef(S_B)),
     Load(0, "Int"), Load(1, "Int"), Store(0, "Int"), Store(2, "Int"),
     ALoad("Int"), AStore("Int"), IInc(1, 1), Convert("Int", "Long"), Simple("LCmp"),
     Ret(0), Ret(1), NewArray("Int"), ArrayLength, I_newB, I_getout, I_println}
    \cup {Simple(op) : op \in {"Pop", "Pop2", "Dup", "DupX1", "DupX2", "Dup2", "Dup2X1",
                               "Dup2X2", "Swap", "MonitorEnter", "MonitorExit", "FCmpL",
                               "AThrow"}}
    \cup {Math(op, "Int") : op \in {"Add", "Sub", "Mul", "Div", "Rem", "Neg"}}
    \cup {Math("Add", "Long")}
    \cup {If(off, "Equal") : off \in {0, 2, -1}}
    \cup {IfICmp(off, "LessThan") : off \in {0, 2, -2}}
    \cup {IfNull(1), IfNonNull(2)}
    \cup {Goto(off) : off \in {0, 1, 2, 4, -1, -9}}
    \cup {Jsr(off) : off \in {0, 1}}
    \cup {Return(t) : t \in {"Null", "Int", "Long", "Reference"}}
    \cup {GetStatic(FRef(S_A, S_x, D_Int)), PutStatic(FRef(S_A, S_x, D_Int)),
          GetStatic(FRef(S_Other, S_x, D_Int)), PutStatic(FRef(S_Other, S_x, D_Int)),
          GetField(FRef(S_B, S_v, D_Int)), PutField(FRef(S_B, S_v, D_Int))}
    \cup {InvokeStatic(MRef(S_A, name_desc[1], name_desc[2])) :
             name_desc \in {<<S_f, D_II_I>>, <<S_g, D_V>>, <<S_h, D_Str_V>>, <<S_k, D_J_V>>,
                            <<S_r, D_I>>, <<S_n, D_V>>}}
    \cup {InvokeVirtual(MRef(S_B, S_get, D_I)), I_initB,
          InvokeVirtual(MRef(S_PrintStream, S_flush, D_V)),
          InvokeStatic(MRef(S_PrintStream, S_println, D_I_V)),
          InvokeStatic(FRef(S_A, S_x, D_Int))}

\* What follows the instruction: nothing, the padding of a three-byte instruction and
\* a return, or a value return.
Epilogues == { <<>>, <<Nop, Nop, Return("Null")>>, <<Return("Int")>> }

MainBodies == {su \o <<ins>> \o ep : su \in Setups, ins \in Alphabet, ep \in Epilogues}

\* Static initializers: none (<<>>), or a body.
Clinits == { <<>>,
             <<Return("Null")>>,
             <<Const(PInt(7)), PutStatic(FRef(S_A, S_x, D_Int)), Return("Null")>>,
             <<Const(PInt(1)), Return("Int")>>,
             <<Nop>> }

\* The class sets given to Jvm::new: class A with every main body, alone or with B; and
\* for a few main bodies every combination of static initializers and a second main.
FewBodies == { <<Return("Null")>>,
               <<GetStatic(FRef(S_A, S_x, D_Int)), Return("Null")>>,
               <<Const(PInt(3)), I_println, Nop, Nop, Return("Null")>> }

(***************************************************************************)
(* The programs of tests.rs, as javac emits them and bytes_to_bytecode     *)
(* decodes them: every operand byte is a Nop slot.                         *)
(***************************************************************************)
\* iconst_<i>, bipush i or sipush i.
PushInt(i) ==
    IF i \in -1..5 THEN <<Const(PInt(i))>>
    ELSE IF i \in -128..127 THEN <<Const(PInt(i)), Nop>>
    ELSE <<Const(PInt(i)), Nop, Nop>>

\* getstatic System.out ... invokevirtual println(I)V around the code that pushes
\* the value, then return.
PrintAndReturn(value_code) ==
    <<I_getout, Nop, Nop>> \o value_code \o <<I_println, Nop, Nop, Return("Null")>>

\* Add.java: int a = ..; int b = ..; System.out.println(a + b);
AddMain(a, b) ==
    PushInt(a) \o <<Store(1, "Int")>> \o PushInt(b) \o <<Store(2, "Int")>>
        \o PrintAndReturn(<<Load(1, "Int"), Load(2, "Int"), Math("Add", "Int")>>)

AddPairs == { <<15, 22>>, <<0, 0>>, <<-7, -9>>, <<1000, -1>>, <<-128, 127>>, <<32767, 32767>> }

\* a[i] = i for the indices in the given order.
RECURSIVE StoreEach(_)
StoreEach(indices) ==
    IF indices = <<>> THEN <<>>
    ELSE <<Load(1, "Reference")>> \o PushInt(Head(indices)) \o PushInt(Head(indices))
            \o <<AStore("Int")>> \o StoreEach(Tail(indices))

\* Array.java: int[] a = new int[n]; a[i] = i for every index;
\* System.out.println(a.length);
ArrayMain(n, indices) ==
    PushInt(n) \o <<NewArray("Int"), Nop, Store(1, "Reference")>> \o StoreEach(indices)
        \o PrintAndReturn(<<Load(1, "Reference"), ArrayLength>>)

Ascending(n) == [i \in 1..n |-> i - 1]
Descending(n) == [i \in 1..n |-> n - i]
ArrayCounts == {0, 1, 2, 3, 10}
ArrayMains == {ArrayMain(n, Ascending(n)) : n \in ArrayCounts}
                 \cup {ArrayMain(n, Descending(n)) : n \in ArrayCounts}

\* ClassTest.java: B p = new B(x, y); System.out.println(p.sum());
ClassTestMain(x, y) ==
    <<I_newB, Nop, Nop, Simple("Dup")>> \o PushInt(x) \o PushInt(y)
        \o <<InvokeSpecial(MRef(S_B, S_init, D_II_V)), Nop, Nop, Store(1, "Reference")>>
        \o PrintAndReturn(<<Load(1, "Reference"), InvokeVirtual(MRef(S_B, S_sum, D_I)), Nop, Nop>>)

PointPairs == { <<30, 60>>, <<0, 0>>, <<-5, 3>>, <<127, -128>>, <<2, 2>> }

\* Two objects, written one after the other, and static fields of two classes.
TwoObjectsMain ==
    <<I_newB, I_newB, Const(PInt(4)), PutField(FRef(S_B, S_v, D_Int)),
      Const(PInt(5)), PutField(FRef(S_B, S_y, D_Int)), Return("Null")>>
StaticsMain ==
    <<Const(PInt(1)), PutStatic(FRef(S_B, S_v, D_Int)), Const(PInt(2)),
      PutStatic(FRef(S_B, S_y, D_Int)), Const(PInt(3)), PutStatic(FRef(S_A, S_x, D_Int)),
      Const(PInt(4)), PutStatic(FRef(S_B, S_v, D_Int)), GetStatic(FRef(S_B, S_y, D_Int)),
      Return("Int")>>

\* Arithmetic on the values at the ends of the ranges. A small constant is pushed
\* by iconst, bipush, sipush or lconst, any other by ldc or ldc2_w.
PushI(n) ==
    IF n \in -32768..32767 THEN Const(PInt(n))
    ELSE LoadConst(CHOOSE i \in 1..Len(ConstantPool) : ConstantPool[i] = CpInteger(n))
PushL(x) ==
    IF x \in {Zero64, I64(1)} THEN Const(PLong(x))
    ELSE LoadConst(CHOOSE i \in 1..Len(ConstantPool) : ConstantPool[i] = CpLong(x))
IntPairs ==
    { <<MaxI32, 1>>, <<MinI32, -1>>, <<MinI32, 1>>, <<0, MinI32>>, <<46341, 46341>>,
      <<-8, 1>>, <<-1, 31>>, <<1, 33>>, <<5, 0>>, <<-7, 2>>, <<MinI32, 0>>,
      <<5, 3>> }
LongPairs ==
    { <<Min64, I64(-1)>>, <<I64(5), Zero64>>, <<Min64, Zero64>>, <<I64(-7), I64(2)>>,
      <<I64(-8), I64(5)>> }
\* Pairs for every operation but the long division of Div and Rem.
LongEnds ==
    { <<Min64, I64(1)>>, <<Max64, I64(1)>>, <<Max64, Min64>>, <<I64(1), Min64>>,
      <<Min64, Min64>>, <<Max64, Max64>>, <<Max64, I64(2)>> }
LongShifts ==
    { <<Min64, 1>>, <<I64(-8), 1>>, <<I64(-1), 63>>, <<I64(1), 63>>, <<I64(1), 64>>,
      <<Max64, 0>> }
ArithSetups ==
    {<<PushI(ab[1]), PushI(ab[2])>> : ab \in IntPairs}
    \cup {<<PushL(ab[1]), PushL(ab[2])>> : ab \in LongPairs \cup LongEnds}
    \cup {<<PushL(ab[1]), PushI(ab[2])>> : ab \in LongShifts}
    \cup {<<PushI(MaxI32), Store(1, "Int")>>, <<PushI(MinI32), Store(1, "Int")>>,
          <<PushL(Max64), Store(1, "Long")>>}
ArithOps ==
    {Math(op, t) : op \in MathOps, t \in {"Int", "Long"}}
    \cup {Simple("LCmp"), IInc(1, 1), IInc(1, -1), IInc(1, 127)}
ArithMains ==
    {su \o <<ins, Return("Null")>> : su \in ArithSetups, ins \in ArithOps}
        \ {<<PushL(ab[1]), PushL(ab[2]), Math(op, "Long"), Return("Null")>> :
               ab \in LongEnds, op \in {"Div", "Rem"}}

\* return new int[n].length;
LengthMain(n) == PushInt(n) \o <<NewArray("Int"), Nop, ArrayLength, Return("Int")>>

\* return new int[n][i];
ElementMain(n, i) ==
    PushInt(n) \o <<NewArray("Int"), Nop>> \o PushInt(i) \o <<ALoad("Int"), Return("Int")>>

\* Calls of a method of a class that is not loaded, and of a method its class lacks.
UnresolvedSets ==
    {<<ClassA(<<Const(PInt(3)), ins, Nop, Nop, Return("Null")>>, <<>>)>> :
        ins \in {InvokeStatic(MRef(S_B, S_get, D_I)), InvokeVirtual(MRef(S_B, S_get, D_I)),
                 InvokeSpecial(MRef(S_Object, S_init, D_V))}} \cup
    {<<ClassA(<<Const(PInt(3)), ins, Nop, Nop, Return("Null")>>, <<>>), ClassB(<<>>, <<>>)>> :
        ins \in {InvokeStatic(MRef(S_B, S_flush, D_V)), InvokeVirtual(MRef(S_B, S_flush, D_V))}}

\* A null check of null, of the first object, of the first array and of Int(0), with
\* a forward and a backward offset.
NullMains ==
    {push \o <<ins, Nop, Nop, Return("Null"), Return("Null")>> :
        push \in {<<AConstNull>>, <<I_newB>>, <<Const(PInt(0)), NewArray("Int")>>,
                  <<Const(PInt(0))>>},
        ins \in {IfNull(3), IfNonNull(3), IfNull(-1), IfNonNull(-1)}}

TestClassSets ==
    UnresolvedSets \cup
    {<<ClassA(main, <<>>), ClassB(<<>>, <<>>)>> : main \in NullMains} \cup
    {<<ClassA(main, <<>>), ClassB(<<>>, <<>>)>> : main \in {TwoObjectsMain, StaticsMain}} \cup
    {<<ClassA(LengthMain(n), <<>>)>> : n \in ArrayCounts} \cup
    {<<ClassA(ElementMain(n, 0), <<>>)>> : n \in ArrayCounts} \cup
    {<<ClassA(main, <<>>)>> : main \in ArithMains} \cup
    {<<ClassA(ClassTestMain(xy[1], xy[2]), <<>>), ClassB(<<>>, <<>>)>> : xy \in PointPairs} \cup
    {<<ClassA(AddMain(ab[1], ab[2]), <<>>)>> : ab \in AddPairs}
    \cup {<<ClassA(main, <<>>)>> : main \in ArrayMains}

ClassSets ==
    TestClassSets \cup
    {<<ClassA(main, <<>>), ClassB(<<>>, <<>>)>> : main \in MainBodies}
    \cup {<<ClassA(main, ca), ClassB(mb, cb)>> :
             main \in FewBodies, ca \in Clinits, cb \in Clinits, mb \in {<<>>, <<Nop, Return("Null")>>}}
    \cup {<<ClassA(main, ca)>> : main \in FewBodies, ca \in Clinits}
    \cup {<<ClassB(<<>>, cb)>> : cb \in Clinits}

(***************************************************************************)
(* Jvm::new and Jvm::run                                                   *)
(***************************************************************************)
\* No class file is being parsed and no pool is being extended.
NoCall == [n |-> 0, f |-> "none", args |-> <<>>, result |-> 0, before |-> <<>>, issued |-> {}]
PoolOff ==
    /\ class_file = [bytes |-> <<>>, assigned |-> <<>>, pool_end |-> 0]
    /\ rpos = 0
    /\ turn = 0
    /\ constant_pool = <<>>
    /\ pstatus = "off"
    /\ call = NoCall

Idle == code = <<>> /\ instructions = <<>> /\ dpc = 0 /\ dstatus = "idle"

\* Jvm::new(classes), in either build profile.
Init ==
    /\ \E classes \in ClassSets :
          class_area = [n \in {classes[i].name : i \in 1..Len(classes)} |->
                          classes[CHOOSE i \in 1..Len(classes) : classes[i].name = n]]
    /\ heap = <<>>
    /\ stack_frames = <<>>
    /\ stdout = <<>>
    /\ overflow_checks \in BOOLEAN
    /\ status = "new"
    /\ last = [n |-> 0, ins |-> NoIns, res |-> "", err |-> ""]
    /\ origin = <<>>
    /\ Idle
    /\ PoolOff

Machine == [class_area |-> class_area, heap |-> heap, stack_frames |-> stack_frames,
            stdout |-> stdout]

\* The orders in which a HashMap may hand out the given class names.
RECURSIVE Orders(_)
Orders(S) == IF S = {} THEN {<<>>}
             ELSE UNION {{<<x>> \o o : o \in Orders(S \ {x})} : x \in S}

FramesFor(order, key) ==
    LET having == SelectSeq(order, LAMBDA n : key \in DOMAIN class_area[n].methods)
    IN  [i \in 1..Len(having) |-> NewFrame(<<>>, class_area[having[i]].methods[key], having[i])]

\* Every frame is paired with the loop of run() that pushed it.
Tagged(frames, kind) == [i \in 1..Len(frames) |-> [frame |-> frames[i], kind |-> kind]]

\* Mutant of run_frames: the two loops of run() in the other order.
run_frames_ClinitFirst(order) ==
    Tagged(FramesFor(order, ClinitKey), "clinit") \o Tagged(FramesFor(order, MainKey), "main")

\* The frames run() pushes before its loop: a main frame for every class that has
\* one, then a <clinit> frame for every class that has one, each in the order of
\* class_area.values().
run_frames(order) ==
    Tagged(FramesFor(order, MainKey), "main") \o Tagged(FramesFor(order, ClinitKey), "clinit")

RunStart ==
    /\ status = "new"
    /\ \E order \in Orders(DOMAIN class_area) :
          LET pushed == run_frames(order) IN
          /\ stack_frames' = [i \in 1..Len(pushed) |-> pushed[i].frame]
          /\ origin' = [i \in 1..Len(pushed) |-> [kind |-> pushed[i].kind, at |-> 0]]
    /\ status' = "running"
    /\ UNCHANGED <<class_area, heap, stdout, overflow_checks, last>>
    /\ UNCHANGED dec_vars
    /\ UNCHANGED pool_vars

\* One turn of `while !self.stack_frames.is_empty() { self.step()?; }`
LoopStep ==
    /\ status = "running"
    /\ stack_frames # <<>>
    /\ last.n < MaxSteps
    /\ LET r == step(Machine, overflow_checks) IN
        /\ class_area' = r.m.class_area
        /\ heap' = r.m.heap
        /\ stack_frames' = r.m.stack_frames
        /\ stdout' = r.m.stdout
        /\ status' = CASE r.res = "Ok" -> "running"
                        [] r.res = "Err" -> "err"
                        [] OTHER -> "panic"
        /\ last' = [n |-> last.n + 1, ins |-> Fetch(Top(Machine)), res |-> r.res, err |-> r.err]
        /\ origin' = IF Len(r.m.stack_frames) > Len(stack_frames)
                      THEN Append(origin, [kind |-> "call", at |-> Top(Machine).pc])
                      ELSE IF Len(r.m.stack_frames) < Len(stack_frames) THEN Rest(origin)
                      ELSE origin
    /\ UNCHANGED overflow_checks
    /\ UNCHANGED dec_vars
    /\ UNCHANGED pool_vars

\* Mutant of RunOk: the loop of run() ends while frames are left.
RunOk_FramesLeft ==
    /\ status = "running"
    /\ status' = "ok"
    /\ UNCHANGED <<class_area, heap, stack_frames, stdout, overflow_checks, last, origin>>
    /\ UNCHANGED dec_vars
    /\ UNCHANGED pool_vars

\* The loop of run() ends: Ok(()).
RunOk ==
    /\ status = "running"
    /\ stack_frames = <<>>
    /\ status' = "ok"
    /\ UNCHANGED <<class_area, heap, stack_frames, stdout, overflow_checks, last, origin>>
    /\ UNCHANGED dec_vars
    /\ UNCHANGED pool_vars

Next == RunStart \/ LoopStep \/ RunOk

Spec == Init /\ [][Next]_vars

(***************************************************************************)
(* bytes_to_bytecode: the decoder of a method's code bytes.                *)
(***************************************************************************)
MaxCodeLen == 5

PFloat(x) == [tag |-> "Float", v |-> x]
PDouble(x) == [tag |-> "Double", v |-> x]

\* The operand readers.  pc is the offset of the last byte consumed so far; a read
\* past the end of code is an index panic (ok = FALSE).
u1(c, pc) ==
    IF pc + 1 < Len(c) THEN [ok |-> TRUE, v |-> c[pc + 2], pc |-> pc + 1]
    ELSE [ok |-> FALSE, v |-> 0, pc |-> pc]

\* Mutant of u2: the cursor moves over one of the two operand bytes only.
u2_OneByte(c, pc) ==
    IF pc + 2 < Len(c)
    THEN LET b1 == c[pc + 2]
             b2 == c[pc + 3]
         IN  [ok |-> TRUE, v |-> (IF b1 >= 128 THEN b1 - 256 ELSE b1) * 256 + b2, pc |-> pc + 1]
    ELSE [ok |-> FALSE, v |-> 0, pc |-> pc]

\* (((b1 as i16) << 8) | (b2 as i16)) as usize: the 16-bit value, sign-extended.
u2(c, pc) ==
    IF pc + 2 < Len(c)
    THEN LET b1 == c[pc + 2]
             b2 == c[pc + 3]
         IN  [ok |-> TRUE, v |-> (IF b1 >= 128 THEN b1 - 256 ELSE b1) * 256 + b2, pc |-> pc + 2]
    ELSE [ok |-> FALSE, v |-> 0, pc |-> pc]

\* The 32-bit value, sign-extended.
u4(c, pc) ==
    IF pc + 4 < Len(c)
    THEN LET b1 == c[pc + 2]
             b2 == c[pc + 3]
             b3 == c[pc + 4]
             b4 == c[pc + 5]
         IN  [ok |-> TRUE,
              v |-> (IF b1 >= 128 THEN b1 - 256 ELSE b1) * 16777216 + b2 * 65536 + b3 * 256 + b4,
              pc |-> pc + 4]
    ELSE [ok |-> FALSE, v |-> 0, pc |-> pc]

\* What PrimitiveType::from_type_id may answer: a type, or None.
TypeIdResults == {"None", "Byte", "Char", "Short", "Int", "Long", "Float", "Double",
                  "Reference", "Null"}

LoadTypes == <<"Int", "Long", "Float", "Double", "Reference">>
ArrayTypes == <<"Int", "Long", "Float", "Double", "Reference", "Byte", "Char", "Short">>
StackOps == <<"Pop", "Pop2", "Dup", "DupX1", "DupX2", "Dup2", "Dup2X1", "Dup2X2", "Swap">>
Comparisons == <<"Equal", "NotEqual", "LessThan", "GreaterThanOrEqual", "GreaterThan",
                 "LessThanOrEqual">>
Conversions == << <<"Int", "Long">>, <<"Int", "Float">>, <<"Int", "Double">>,
                  <<"Long", "Int">>, <<"Long", "Float">>, <<"Long", "Double">>,
                  <<"Float", "Int">>, <<"Float", "Long">>, <<"Float", "Double">>,
                  <<"Double", "Int">>, <<"Double", "Long">>, <<"Double", "Float">>,
                  <<"Int", "Byte">>, <<"Int", "Char">>, <<"Int", "Short">> >>
IndexOps == <<"GetStatic", "PutStatic", "GetField", "PutField", "InvokeVirtual",
              "InvokeSpecial", "InvokeStatic", "InvokeInterface", "InvokeDynamic", "New">>

\* The match on code[pc]: the instruction, and the cursor after its operands.
\* type_id is the answer of from_type_id for newarray / anewarray.
decode_one(c, pc, type_id) ==
    LET b == c[pc + 1]
        r1 == u1(c, pc)
        r2 == u2(c, pc)
        r4 == u4(c, pc)
        Plain(ins) == [ok |-> TRUE, ins |-> ins, pc |-> pc]
        With(r, ins) == [ok |-> r.ok, ins |-> IF r.ok THEN ins ELSE NoIns, pc |-> r.pc]
        Unsupported == [ok |-> FALSE, ins |-> NoIns, pc |-> pc]
    IN  CASE b = 0 -> Plain(Nop)
          [] b = 1 -> Plain(AConstNull)
          [] b \in 2..8 -> Plain(Const(PInt(b - 3)))
          [] b \in 9..10 -> Plain(Const(PLong(I64(b - 9))))
          [] b \in 11..13 -> Plain(Const(PFloat(b - 11)))
          [] b \in 14..15 -> Plain(Const(PDouble(b - 14)))
          [] b = 16 -> With(r1, Const(PInt(r1.v)))
          [] b = 17 -> With(r2, Const(PInt(r2.v)))
          [] b = 18 -> With(r1, LoadConst(r1.v))
          [] b \in 19..20 -> With(r2, LoadConst(r2.v))
          [] b \in 21..25 -> With(r1, Load(r1.v, LoadTypes[b - 20]))
          [] b \in 26..45 -> Plain(Load((b - 26) % 4, LoadTypes[((b - 26) \div 4) + 1]))
          [] b \in 46..53 -> Plain(ALoad(ArrayTypes[b - 45]))
          [] b \in 54..58 -> With(r1, Store(r1.v, LoadTypes[b - 53]))
          [] b \in 59..78 -> Plain(Store((b - 59) % 4, LoadTypes[((b - 59) \div 4) + 1]))
          [] b \in 79..86 -> Plain(AStore(ArrayTypes[b - 78]))
          [] b \in 87..95 -> Plain(Simple(StackOps[b - 86]))
          [] b \in 96..119 ->
               Plain(Math(<<"Add", "Sub", "Mul", "Div", "Rem", "Neg">>[((b - 96) \div 4) + 1],
                          LoadTypes[((b - 96) % 4) + 1]))
          [] b \in 120..131 ->
               Plain(Math(<<"Shl", "Shr", "UShr", "And", "Or", "Xor">>[((b - 120) \div 2) + 1],
                          LoadTypes[((b - 120) % 2) + 1]))
          [] b = 132 ->
               LET index == r1
                   const == IF index.ok THEN u1(c, index.pc) ELSE index
               IN  With(const, IInc(index.v, IF const.v >= 128 THEN const.v - 256 ELSE const.v))
          [] b \in 133..147 -> Plain(Convert(Conversions[b - 132][1], Conversions[b - 132][2]))
          [] b = 148 -> Plain(Simple("LCmp"))
          [] b \in 149..152 -> Plain(Simple(<<"FCmpL", "FCmpG", "DCmpL", "DCmpG">>[b - 148]))
          [] b \in 153..158 -> With(r2, If(r2.v, Comparisons[b - 152]))
          [] b \in 159..164 -> With(r2, IfICmp(r2.v, Comparisons[b - 158]))
          [] b \in 165..166 -> With(r2, IfICmp(r2.v, Comparisons[b - 164]))
          [] b = 167 -> With(r2, Goto(r2.v))
          [] b = 168 -> With(r2, Jsr(r2.v))
          [] b = 169 -> With(r1, Ret(r1.v))
          [] b \in 172..177 ->
               Plain(Return(<<"Int", "Long", "Float", "Double", "Reference", "Null">>[b - 171]))
          [] b \in 178..187 -> With(r2, Ins(IndexOps[b - 177], r2.v, 0, ""))
          [] b = 188 ->
               IF r1.ok /\ type_id = "None" THEN Unsupported ELSE With(r1, NewArray(type_id))
          [] b = 189 ->
               IF r2.ok /\ type_id = "None" THEN Unsupported
               ELSE With(r2, Ins("ANewArray", 0, 0, type_id))
          [] b = 190 -> Plain(ArrayLength)
          [] b = 191 -> Plain(Simple("AThrow"))
          [] b = 192 -> With(r2, Ins("CheckCast", r2.v, 0, ""))
          [] b = 193 -> With(r2, Ins("InstanceOf", r2.v, 0, ""))
          [] b = 194 -> Plain(Simple("MonitorEnter"))
          [] b = 195 -> Plain(Simple("MonitorExit"))
          [] b = 198 -> With(r2, IfNull(r2.v))
          [] b = 199 -> With(r2, IfNonNull(r2.v))
          [] b = 200 -> With(r4, Goto(r4.v))
          [] b = 201 -> With(r4, Jsr(r4.v))
          [] b = 202 -> Plain(Simple("Breakpoint"))
          [] OTHER -> Unsupported

\* The code bytes under test: opcodes without operands, with one, two (twice one for
\* iinc) and four operand bytes, newarray, and a byte that is no opcode and is a
\* negative operand byte.
Bytes == {0, 16, 132, 167, 188, 200, 255}

RECURSIVE SeqsUpTo(_, _)
SeqsUpTo(S, n) ==
    IF n = 0 THEN {<<>>}
    ELSE LET shorter == SeqsUpTo(S, n - 1)
         IN  shorter \cup {Append(q, x) : q \in {t \in shorter : Len(t) = n - 1}, x \in S}

\* The interpreter is not running while a method is decoded.
JvmOff ==
    /\ class_area = EmptyMap /\ heap = <<>> /\ stack_frames = <<>> /\ stdout = <<>>
    /\ overflow_checks = FALSE /\ status = "off"
    /\ last = [n |-> 0, ins |-> NoIns, res |-> "", err |-> ""]
    /\ origin = <<>>

\* bytes_to_bytecode(code) is entered: instructions is empty, pc = 0.
DecodeInit ==
    /\ code \in SeqsUpTo(Bytes, MaxCodeLen)
    /\ instructions = <<>>
    /\ dpc = 0
    /\ dstatus = "decoding"
    /\ JvmOff
    /\ PoolOff

\* One turn of `while pc < code.len()`: push the decoded instruction, push a Nop for
\* every operand byte (past_byte_pos is pc as it was at the head of the loop),
\* pc += 1.
DecodeTurn ==
    /\ dstatus = "decoding"
    /\ dpc < Len(code)
    /\ \E type_id \in TypeIdResults :
          LET d == decode_one(code, dpc, type_id)
              past_byte_pos == dpc
          IN  /\ d.ok
              /\ instructions' = instructions \o <<d.ins>> \o [i \in 1..(d.pc - past_byte_pos) |-> Nop]
              /\ dpc' = d.pc + 1
    /\ UNCHANGED <<code, dstatus>>
    /\ UNCHANGED jvm_vars
    /\ UNCHANGED pool_vars

\* A turn of the loop panics: an opcode without a decoding, an operand past the end
\* of code, or a type id without a type.
DecodePanic ==
    /\ dstatus = "decoding"
    /\ dpc < Len(code)
    /\ \E type_id \in TypeIdResults : ~decode_one(code, dpc, type_id).ok
    /\ dstatus' = "panic"
    /\ UNCHANGED <<code, instructions, dpc>>
    /\ UNCHANGED jvm_vars
    /\ UNCHANGED pool_vars

\* The loop ends and instructions is returned.
DecodeReturn ==
    /\ dstatus = "decoding"
    /\ dpc >= Len(code)
    /\ dstatus' = "done"
    /\ UNCHANGED <<code, instructions, dpc>>
    /\ UNCHANGED jvm_vars
    /\ UNCHANGED pool_vars

DecodeNext == DecodeTurn \/ DecodePanic \/ DecodeReturn

SpecDecode == DecodeInit /\ [][DecodeNext]_vars

\* bytes_to_bytecode on a bipush or sipush with operand bytes at the ends of the
\* signed and unsigned ranges, whole or cut short.
OperandEnds == {0, 1, 127, 128, 200, 255}
PushCodes ==
    {<<16, b>> : b \in OperandEnds} \cup {<<17, b1, b2>> : b1 \in OperandEnds, b2 \in OperandEnds}
        \cup {<<16>>, <<17>>, <<17, 255>>}
PushInit ==
    /\ code \in PushCodes
    /\ instructions = <<>>
    /\ dpc = 0
    /\ dstatus = "decoding"
    /\ JvmOff
    /\ PoolOff

SpecPush == PushInit /\ [][DecodeNext]_vars

(***************************************************************************)
(* The constant pool of a class file: reader.rs and parse_constant_pool.   *)
(***************************************************************************)
\* The ASCII characters from byte 32 to byte 95, and the lower-case letters.
Ascii == <<" ","!","\"","#","$","%","&","'","(",")","*","+",",","-",".","/",
           "0","1","2","3","4","5","6","7","8","9",":",";","<","=",">","?",
           "@","A","B","C","D","E","F","G","H","I","J","K","L","M","N","O",
           "P","Q","R","S","T","U","V","W","X","Y","Z","[","\\","]","^","_">>
Lower == <<"a","b","c","d","e","f","g","h","i","j","k","l","m",
           "n","o","p","q","r","s","t","u","v","w","x","y","z">>

\* String::from_utf8 on one byte below 128; the remaining characters are not
\* told apart.
CharOf(b) ==
    IF b \in 32..95 THEN Ascii[b - 31] ELSE IF b \in 97..122 THEN Lower[b - 96] ELSE "other"
ByteOf(c) == CHOOSE b \in 32..122 : CharOf(b) = c

\* Reader::g1, g2, g4 at index pos of the bytes; InFile is the bounds check of
\* the indexing in g1 and in g(size).
InFile(bytes, pos, size) == pos + size <= Len(bytes)
g1(bytes, pos) == bytes[pos + 1]
g2(bytes, pos) == bytes[pos + 1] * 256 + bytes[pos + 2]
g2u(bytes, pos) == g2(bytes, pos)
\* g4: a u32 is kept as its four big-endian bytes.
g4(bytes, pos) == SubSeq(bytes, pos + 1, pos + 4)

\* i32::from_be_bytes(r.g4_array()) and i64::from_be_bytes(r.g8_array()) as limbs.
I32FromBe(bytes, pos) ==
    (IF g1(bytes, pos) >= 128 THEN g1(bytes, pos) - 256 ELSE g1(bytes, pos)) * 2^24
        + g1(bytes, pos + 1) * 2^16 + g2(bytes, pos + 2)
I64FromBe(bytes, pos) ==
    <<g2(bytes, pos + 6), g2(bytes, pos + 4), g2(bytes, pos + 2), g2(bytes, pos)>>

\* The entry kinds of the parser that the interpreter's pools do not use.
CpOther(kind, i, j) == [kind |-> kind, s |-> <<>>, i |-> i, j |-> j, l |-> Zero64]
CpDouble(l) == [kind |-> "Double", s |-> <<>>, i |-> 0, j |-> 0, l |-> l]

Parsed(entry, pos) == [ok |-> TRUE, entry |-> entry, pos |-> pos]
ParseFails == [ok |-> FALSE, entry |-> CpOther("None", 0, 0), pos |-> 0]

\* Entries that read n bytes after the tag: out of the file is an index panic.
Sized(bytes, pos, n, entry) ==
    IF InFile(bytes, pos, 1 + n) THEN Parsed(entry, pos + 1 + n) ELSE ParseFails

\* The Utf8 arm: the length, then that many bytes through String::from_utf8.
ParseUtf8(bytes, pos) ==
    IF ~InFile(bytes, pos, 3) THEN ParseFails
    ELSE IF ~InFile(bytes, pos, 3 + g2u(bytes, pos + 1)) THEN ParseFails
    ELSE IF \E k \in 1..g2u(bytes, pos + 1) : bytes[pos + 3 + k] >= 128 THEN ParseFails
    ELSE Parsed(Utf8([k \in 1..g2u(bytes, pos + 1) |-> CharOf(bytes[pos + 3 + k])]),
                pos + 3 + g2u(bytes, pos + 1))

\* One turn of the match of parse_constant_pool at index pos.
parse_entry(bytes, pos) ==
    IF ~InFile(bytes, pos, 1) THEN ParseFails
    ELSE CASE g1(bytes, pos) = 1 -> ParseUtf8(bytes, pos)
           [] g1(bytes, pos) = 3 -> Sized(bytes, pos, 4, CpInteger(I32FromBe(bytes, pos + 1)))
           [] g1(bytes, pos) = 4 -> Sized(bytes, pos, 4, CpOther("Float", g2(bytes, pos + 1), g2(bytes, pos + 3)))
           [] g1(bytes, pos) = 5 -> Sized(bytes, pos, 8, CpLong(I64FromBe(bytes, pos + 1)))
           [] g1(bytes, pos) = 6 -> Sized(bytes, pos, 8, CpDouble(I64FromBe(bytes, pos + 1)))
           [] g1(bytes, pos) = 7 -> Sized(bytes, pos, 2, CpClass(g2u(bytes, pos + 1)))
           [] g1(bytes, pos) = 8 -> Sized(bytes, pos, 2, CpOther("String", g2u(bytes, pos + 1), 0))
           [] g1(bytes, pos) = 9 ->
                Sized(bytes, pos, 4, FieldRef(g2u(bytes, pos + 1), g2u(bytes, pos + 3)))
           [] g1(bytes, pos) = 10 ->
                Sized(bytes, pos, 4, MethodRef(g2u(bytes, pos + 1), g2u(bytes, pos + 3)))
           [] g1(bytes, pos) = 11 ->
                Sized(bytes, pos, 4,
                      CpOther("InterfaceMethodRef", g2u(bytes, pos + 1), g2u(bytes, pos + 3)))
           [] g1(bytes, pos) = 12 ->
                Sized(bytes, pos, 4, NameAndType(g2u(bytes, pos + 1), g2u(bytes, pos + 3)))
           [] g1(bytes, pos) = 15 ->
                Sized(bytes, pos, 3,
                      CpOther("MethodHandle", g1(bytes, pos + 1), g2u(bytes, pos + 2)))
           [] g1(bytes, pos) = 16 ->
                Sized(bytes, pos, 2, CpOther("MethodType", g2u(bytes, pos + 1), 0))
           [] g1(bytes, pos) = 18 ->
                Sized(bytes, pos, 4,
                      CpOther("InvokeDynamic", g2u(bytes, pos + 1), g2u(bytes, pos + 3)))
           [] OTHER -> ParseFails

\* The class files under test.  A pool is written as the class-file format
\* numbers it: a Long or Double is followed by the index it makes unusable.
Unusable == CpOther("Unusable", 0, 0)
EncU2(n) == <<n \div 256, n % 256>>
EncLimbs(l) == EncU2(l[4]) \o EncU2(l[3]) \o EncU2(l[2]) \o EncU2(l[1])
EncodeEntry(e) ==
    CASE e.kind = "Utf8" -> <<1>> \o EncU2(Len(e.s)) \o [k \in 1..Len(e.s) |-> ByteOf(e.s[k])]
      [] e.kind = "Integer" -> <<3, 0, 0>> \o EncU2(e.i)
      [] e.kind = "Long" -> <<5>> \o EncLimbs(e.l)
      [] e.kind = "Double" -> <<6>> \o EncLimbs(e.l)
      [] e.kind = "Class" -> <<7>> \o EncU2(e.i)
      [] e.kind = "NameAndType" -> <<12>> \o EncU2(e.i) \o EncU2(e.j)
      [] e.kind = "MethodRef" -> <<10>> \o EncU2(e.i) \o EncU2(e.j)
      [] e.kind = "FieldRef" -> <<9>> \o EncU2(e.i) \o EncU2(e.j)
      [] OTHER -> <<>>

RECURSIVE EncodePool(_)
EncodePool(pool) ==
    IF pool = <<>> THEN <<>> ELSE EncodeEntry(Head(pool)) \o EncodePool(Tail(pool))

Magic == <<202, 254, 186, 190>>
HeaderLen == Len(Magic) + 6
PoolHeads == {<<>>, <<CpInteger(7)>>, <<Utf8(S_A)>>}
PoolWides == {<<>>, <<CpLong(I64(5)), Unusable>>, <<CpDouble(I64(-3)), Unusable>>}
PoolTail(n) ==
    <<Utf8(S_B), CpClass(n + 1), Utf8(S_f), Utf8(D_V), NameAndType(n + 3, n + 4),
      MethodRef(n + 2, n + 5)>>
AccessFlags == {<<0, 33>>, <<4, 33>>, <<6, 1>>, <<16, 33>>}

\* A class with this pool and these access flags, no interface, field or method.
ClassFile(magic, pool, flags) ==
    [bytes |-> magic \o <<0, 0, 0, 52>> \o EncU2(Len(pool) + 1) \o EncodePool(pool) \o flags
                  \o EncU2(Len(pool) - 4) \o <<0, 0, 0, 0, 0, 0, 0, 0, 0, 0>>,
     assigned |-> pool,
     pool_end |-> HeaderLen + Len(EncodePool(pool))]

ClassFiles ==
    {ClassFile(Magic, h \o w \o PoolTail(Len(h \o w)), fl) :
        h \in PoolHeads, w \in PoolWides, fl \in AccessFlags}
        \cup {ClassFile(<<202, 254, 186, 191>>, PoolTail(0), <<0, 33>>)}

\* Reader::new(filename).
ParseInit ==
    /\ class_file \in ClassFiles
    /\ rpos = 0
    /\ turn = 0
    /\ constant_pool = <<>>
    /\ pstatus = "opened"
    /\ call = NoCall
    /\ JvmOff
    /\ Idle

\* parse_file_to_class up to the call of parse_constant_pool.
ParseHeader ==
    /\ pstatus = "opened"
    /\ g4(class_file.bytes, 0) = Magic
    /\ pstatus' = "parsing"
    /\ rpos' = HeaderLen
    /\ turn' = 1
    /\ UNCHANGED <<class_file, constant_pool, call>>
    /\ UNCHANGED jvm_vars
    /\ UNCHANGED dec_vars

\* One turn of `for _ in 1..constant_pool_count`.
ParseTurn ==
    /\ pstatus = "parsing"
    /\ turn < g2(class_file.bytes, HeaderLen - 2)
    /\ parse_entry(class_file.bytes, rpos).ok
    /\ constant_pool' = Append(constant_pool, parse_entry(class_file.bytes, rpos).entry)
    /\ rpos' = parse_entry(class_file.bytes, rpos).pos
    /\ turn' = turn + 1
    /\ UNCHANGED <<class_file, pstatus, call>>
    /\ UNCHANGED jvm_vars
    /\ UNCHANGED dec_vars

\* panic!("invalid magic number"), panic!("unsupported constant pool entry"),
\* a read past the end of the file, or the unwrap of an invalid string.
ParsePanic ==
    /\ \/ pstatus = "opened" /\ g4(class_file.bytes, 0) # Magic
       \/ /\ pstatus = "parsing"
          /\ turn < g2(class_file.bytes, HeaderLen - 2)
          /\ ~parse_entry(class_file.bytes, rpos).ok
    /\ pstatus' = "panic"
    /\ UNCHANGED <<class_file, rpos, turn, constant_pool, call>>
    /\ UNCHANGED jvm_vars
    /\ UNCHANGED dec_vars

\* parse_constant_pool returns; the next read of the caller is the access flags.
ParseReturn ==
    /\ pstatus = "parsing"
    /\ turn >= g2(class_file.bytes, HeaderLen - 2)
    /\ pstatus' = "parsed"
    /\ UNCHANGED <<class_file, rpos, turn, constant_pool, call>>
    /\ UNCHANGED jvm_vars
    /\ UNCHANGED dec_vars

ParseNext == ParseHeader \/ ParseTurn \/ ParsePanic \/ ParseReturn
SpecParse == ParseInit /\ [][ParseNext]_vars

(***************************************************************************)
(* ConstantPoolExt (java_class.rs): find_* return an index or None, here   *)
(* 0; find_or_add_* return the pool they leave and the index they return.  *)
(***************************************************************************)
\* The first index of the enumeration that matches, or None.
FirstOf(S) == IF S = {} THEN 0 ELSE CHOOSE i \in S : \A j \in S : i <= j

find_utf8(cp, utf8) ==
    FirstOf({i \in 1..Len(cp) : cp[i].kind = "Utf8" /\ cp[i].s = utf8})

find_class(cp, class_name) ==
    IF find_utf8(cp, class_name) = 0 THEN 0
    ELSE FirstOf({i \in 1..Len(cp) :
                     cp[i].kind = "Class" /\ cp[i].i = find_utf8(cp, class_name)})

find_name_and_type(cp, name, descriptor) ==
    IF find_utf8(cp, name) = 0 \/ find_utf8(cp, descriptor) = 0 THEN 0
    ELSE FirstOf({i \in 1..Len(cp) :
                     /\ cp[i].kind = "NameAndType"
                     /\ cp[i].i = find_utf8(cp, name)
                     /\ cp[i].j = find_utf8(cp, descriptor)})

\* find_field_ref and find_method_ref, kind being "FieldRef" or "MethodRef".
find_ref(cp, kind, class_name, name, descriptor) ==
    IF find_class(cp, class_name) = 0 \/ find_name_and_type(cp, name, descriptor) = 0 THEN 0
    ELSE FirstOf({i \in 1..Len(cp) :
                     /\ cp[i].kind = kind
                     /\ cp[i].i = find_class(cp, class_name)
                     /\ cp[i].j = find_name_and_type(cp, name, descriptor)})

Found(cp, index) == [pool |-> cp, index |-> index]
\* self.push(entry); self.len()
Pushed(cp, entry) == [pool |-> Append(cp, entry), index |-> Len(cp) + 1]

\* Mutant of find_or_add_utf8: the string is pushed whether or not it is found.
find_or_add_utf8_Push(cp, value) == Pushed(cp, Utf8(value))

find_or_add_utf8(cp, value) ==
    IF find_utf8(cp, value) # 0 THEN Found(cp, find_utf8(cp, value))
    ELSE Pushed(cp, Utf8(value))

\* The None arms: the parts are found or added in turn, then the entry is pushed.
AddClass(name_index) == Pushed(name_index.pool, CpClass(name_index.index))
find_or_add_class(cp, name) ==
    IF find_class(cp, name) # 0 THEN Found(cp, find_class(cp, name))
    ELSE AddClass(find_or_add_utf8(cp, name))

AddDescriptor(name_index, descriptor_index) ==
    Pushed(descriptor_index.pool, NameAndType(name_index.index, descriptor_index.index))
AddNameAndType(name_index, descriptor) ==
    AddDescriptor(name_index, find_or_add_utf8(name_index.pool, descriptor))
find_or_add_name_and_type(cp, name, descriptor) ==
    IF find_name_and_type(cp, name, descriptor) # 0
    THEN Found(cp, find_name_and_type(cp, name, descriptor))
    ELSE AddNameAndType(find_or_add_utf8(cp, name), descriptor)

AddMember(kind, class_index, name_and_type_index) ==
    Pushed(name_and_type_index.pool,
           IF kind = "MethodRef" THEN MethodRef(class_index.index, name_and_type_index.index)
           ELSE FieldRef(class_index.index, name_and_type_index.index))
AddRef(kind, class_index, name, descriptor) ==
    AddMember(kind, class_index, find_or_add_name_and_type(class_index.pool, name, descriptor))
\* find_or_add_method_ref and find_or_add_field_ref.
find_or_add_ref(cp, kind, class_name, name, descriptor) ==
    IF find_ref(cp, kind, class_name, name, descriptor) # 0
    THEN Found(cp, find_ref(cp, kind, class_name, name, descriptor))
    ELSE AddRef(kind, find_or_add_class(cp, class_name), name, descriptor)

\* The five functions by name, on their tuple of string arguments.
FindOrAdd(f, args, cp) ==
    CASE f = "utf8" -> find_or_add_utf8(cp, args[1])
      [] f = "class" -> find_or_add_class(cp, args[1])
      [] f = "name_and_type" -> find_or_add_name_and_type(cp, args[1], args[2])
      [] f = "method_ref" -> find_or_add_ref(cp, "MethodRef", args[1], args[2], args[3])
      [] OTHER -> find_or_add_ref(cp, "FieldRef", args[1], args[2], args[3])

\* The pools the calls start from: empty, a duplicated string, a Long, a Class
\* ahead of its name, a field but no method of the same name and descriptor.
MaxCalls == 2
StartPools ==
    { <<>>,
      <<Utf8(S_A), CpClass(1)>>,
      <<Utf8(S_A), Utf8(S_A), CpClass(2)>>,
      <<CpClass(2), Utf8(S_B)>>,
      <<CpLong(I64(5)), Utf8(S_f), Utf8(D_V), NameAndType(2, 3)>>,
      <<Utf8(S_A), CpClass(1), Utf8(S_f), Utf8(D_V), NameAndType(3, 4), FieldRef(2, 5)>> }
ClassNames == {S_A, S_B}
MemberNames == {S_f, S_A}
Descriptors == {D_V, S_f}

PoolInit ==
    /\ constant_pool \in StartPools
    /\ pstatus = "pool"
    /\ call = NoCall
    /\ class_file = [bytes |-> <<>>, assigned |-> <<>>, pool_end |-> 0]
    /\ rpos = 0
    /\ turn = 0
    /\ JvmOff
    /\ Idle

\* One call f(args) on the pool, and the record of it.
Call(f, args) ==
    /\ call.n < MaxCalls
    /\ constant_pool' = FindOrAdd(f, args, constant_pool).pool
    /\ call' = [n |-> call.n + 1, f |-> f, args |-> args,
                result |-> FindOrAdd(f, args, constant_pool).index,
                before |-> constant_pool,
                issued |-> call.issued
                             \cup {<<f, args, FindOrAdd(f, args, constant_pool).index>>}]
    /\ UNCHANGED <<class_file, rpos, turn, pstatus>>
    /\ UNCHANGED jvm_vars
    /\ UNCHANGED dec_vars

FindOrAddUtf8 ==
    /\ pstatus = "pool"
    /\ \E s \in ClassNames \cup MemberNames \cup Descriptors : Call("utf8", <<s>>)
FindOrAddClass ==
    /\ pstatus = "pool"
    /\ \E c \in ClassNames : Call("class", <<c>>)
FindOrAddNameAndType ==
    /\ pstatus = "pool"
    /\ \E n \in MemberNames, d \in Descriptors : Call("name_and_type", <<n, d>>)
FindOrAddMethodRef ==
    /\ pstatus = "pool"
    /\ \E c \in ClassNames, n \in MemberNames, d \in Descriptors :
          Call("method_ref", <<c, n, d>>)
FindOrAddFieldRef ==
    /\ pstatus = "pool"
    /\ \E c \in ClassNames, n \in MemberNames, d \in Descriptors :
          Call("field_ref", <<c, n, d>>)

PoolNext ==
    FindOrAddUtf8 \/ FindOrAddClass \/ FindOrAddNameAndType \/ FindOrAddMethodRef
        \/ FindOrAddFieldRef
SpecPool == PoolInit /\ [][PoolNext]_vars

\* The number of operand bytes that follow the opcode b.
OperandBytes(b) ==
    IF b \in {16, 18, 169, 188} \cup (21..25) \cup (54..58) THEN 1
    ELSE IF b \in {17, 19, 20, 132, 189, 192, 193, 198, 199} \cup (153..168) \cup (178..187) THEN 2
    ELSE IF b \in {200, 201} THEN 4
    ELSE 0

\* The byte offsets of c, from offset k on, that hold an opcode.
RECURSIVE OpcodeOffsets(_, _)
OpcodeOffsets(c, k) ==
    IF k >= Len(c) THEN {} ELSE {k} \cup OpcodeOffsets(c, k + 1 + OperandBytes(c[k + 1]))

\* C4: a decoded vector has as many slots as code has bytes; the slot of an opcode
\* byte holds the instruction decoded from that byte and its operands, and the slots
\* of its operand bytes hold Nop.
C4_DecodeAligned ==
    dstatus = "done" =>
        /\ Len(instructions) = Len(code)
        /\ \A k \in OpcodeOffsets(code, 0) :
              /\ \E type_id \in TypeIdResults :
                    /\ decode_one(code, k, type_id).ok
                    /\ instructions[k + 1] = decode_one(code, k, type_id).ins
              /\ \A j \in 1..OperandBytes(code[k + 1]) : instructions[k + 1 + j] = Nop

C4_Witness ==
    /\ dstatus = "done"
    /\ code = <<16, 200, 167, 255, 255>>
    /\ instructions = <<Const(PInt(200)), Nop, Goto(-1), Nop, Nop>>

(***************************************************************************)
(* Properties of the interpreter.                                          *)
(***************************************************************************)
\* The transition is a call of step().
Stepped == last'.n = last.n + 1
\* The instruction the coming call of step() fetches.
CurIns == Fetch(Top(Machine))

\* C1: run() calls step() as long as frames are left and returns Ok(()) only with
\* an empty frame stack; a step that returns an error ends run() with that error at
\* once: the frames stay on the frame stack and nothing is executed afterwards.
C1_RunUntilEmpty ==
    [][ /\ status' = "ok" => stack_frames' = <<>>
        /\ (status = "running" /\ stack_frames # <<>>) => Stepped
        /\ (Stepped /\ last'.res = "Err") =>
               /\ status' = "err"
               /\ stack_frames' # <<>>
               /\ Len(stack_frames') = Len(stack_frames)
        /\ status' = "err" => (Stepped /\ last'.res = "Err")
        /\ status \notin {"err", "ok"} ]_vars

C1_Witness == status = "err" /\ Len(stack_frames) >= 2 /\ last.n >= 2

\* C2: at every step boundary every frame's pc is a slot of its method's instruction
\* vector, 0 <= pc < length.
C2_PcInRange ==
    status = "running" => \A i \in 1..Len(stack_frames) : HasInstruction(stack_frames[i])

\* A branch whose target is its own slot: Goto with offset 0, or Ret through a local
\* that holds the slot of the Ret itself.
SelfBranch(f, ins) ==
    \/ ins.op = "Goto" /\ ins.a = 0
    \/ /\ ins.op = "Ret"
       /\ ins.a + 1 \in 1..Len(f.locals)
       /\ f.locals[ins.a + 1] = PReference(f.pc)

\* C3 as stated: every successful step changes the machine state.
C3_EveryStepChanges ==
    [][ (Stepped /\ last'.res = "Ok") => Machine' # Machine ]_vars

\* C3, amended: every successful step changes the machine state, unless the
\* instruction is a branch to its own slot, which leaves the whole machine unchanged.
C3_Progress ==
    [][ (Stepped /\ last'.res = "Ok") =>
            IF SelfBranch(Top(Machine), CurIns) THEN Machine' = Machine
            ELSE Machine' # Machine ]_vars

C3_Witness ==
    /\ last.res = "Ok" /\ last.ins = Goto(0) /\ last.n >= 3
    /\ stack_frames # <<>> /\ CurIns = Goto(0)

NFrames == Len(stack_frames)
IsInvoke(ins) == ins.op \in {"InvokeStatic", "InvokeVirtual", "InvokeSpecial"}
\* The method reference the coming invoke names: <<class, name, descriptor>>, <<>> if
\* the index does not hold one.
CurRef == method_ref_parser(CurIns.a, CurPool(Machine))
\* The coming step is an invoke of a method of a loaded class.
LoadedInvoke ==
    /\ IsInvoke(CurIns)
    /\ CurRef # <<>>
    /\ CurRef[1] \in DOMAIN class_area
    /\ CurRef[2] \o CurRef[3] \in DOMAIN class_area[CurRef[1]].methods

\* C5: an invoke that pushes a frame leaves the caller's pc one past the invoke, and
\* the callee frame starts with pc = 0, an empty operand stack, an empty array table
\* and the resolved owner class; when a called frame is popped by a return the caller
\* is at the instruction after its invoke.
C5_InvokeAdvancesCaller ==
    [][ Stepped =>
          /\ NFrames' = NFrames + 1 =>
                /\ LoadedInvoke
                /\ stack_frames'[NFrames].pc = Top(Machine).pc + 1
                /\ stack_frames'[NFrames + 1].pc = 0
                /\ stack_frames'[NFrames + 1].stack = <<>>
                /\ stack_frames'[NFrames + 1].arrays = <<>>
                /\ stack_frames'[NFrames + 1].class_name = CurRef[1]
                /\ stack_frames'[NFrames + 1].method =
                       class_area[CurRef[1]].methods[CurRef[2] \o CurRef[3]]
          /\ (NFrames' = NFrames - 1 /\ origin[NFrames].kind = "call") =>
                /\ stack_frames'[NFrames'].pc = origin[NFrames].at + 1
                /\ IsInvoke(stack_frames'[NFrames'].method[origin[NFrames].at + 1]) ]_vars

C5_Witness ==
    /\ status = "running" /\ last.res = "Ok" /\ last.ins = Return("Int")
    /\ NFrames = 1 /\ origin[1].kind = "main"
    /\ Top(Machine).pc = 3
    /\ Top(Machine).method[3].op = "InvokeStatic"
    /\ Top(Machine).stack = <<PInt(8)>>

\* The field type that starts the descriptor text s is skipped.
RECURSIVE SkipType(_)
SkipType(s) ==
    IF s = <<>> THEN <<>>
    ELSE IF Head(s) = "[" THEN SkipType(Tail(s))
    ELSE IF Head(s) = "L" THEN
        LET name == SplitFirst(s, ";") IN SubSeq(s, Len(name) + 2, Len(s))
    ELSE Tail(s)

RECURSIVE CountTypes(_)
CountTypes(s) == IF s = <<>> THEN 0 ELSE 1 + CountTypes(SkipType(s))

\* The number of parameters a method descriptor declares.
ParamCount(desc) == CountTypes(Tail(SplitFirst(desc, ")")))

\* C6: an invoke of a loaded method, on a stack that holds the declared parameters
\* (and the receiver for InvokeVirtual / InvokeSpecial), pops exactly these values
\* and hands them to the callee's locals in order, the receiver first.
C6_PopsDeclaredParams ==
    [][ (Stepped /\ LoadedInvoke) =>
          LET n == ParamCount(CurRef[3]) + (IF CurIns.op = "InvokeStatic" THEN 0 ELSE 1)
              s == Top(Machine).stack
          IN  Len(s) >= n =>
                /\ last'.res = "Ok"
                /\ NFrames' = NFrames + 1
                /\ stack_frames'[NFrames + 1].locals = SubSeq(s, Len(s) - n + 1, Len(s))
                /\ stack_frames'[NFrames].stack = SubSeq(s, 1, Len(s) - n) ]_vars

\* C7: Return with no value pops the frame and leaves the caller as it is.
\* Return(T) pops the top value; if its tag is T the frame is popped and the value is
\* pushed on the caller's operand stack, the caller being otherwise unchanged; if the
\* tag is not T the step is an error and the frame stays.
C7_Return ==
    [][ (Stepped /\ CurIns.op = "Return") =>
          LET s == Top(Machine).stack
              below == SubSeq(stack_frames, 1, NFrames - 1)
          IN  IF CurIns.t = "Null"
              THEN last'.res = "Ok" /\ stack_frames' = below
              ELSE IF s = <<>> THEN last'.res = "Err" /\ stack_frames' = stack_frames
              ELSE IF s[Len(s)].tag = CurIns.t
              THEN /\ last'.res = "Ok"
                   /\ NFrames' = NFrames - 1
                   /\ \A i \in 1..(NFrames - 2) : stack_frames'[i] = stack_frames[i]
                   /\ NFrames > 1 =>
                         stack_frames'[NFrames - 1] =
                            [stack_frames[NFrames - 1] EXCEPT !.stack = Append(@, s[Len(s)])]
              ELSE /\ last'.res = "Err"
                   /\ NFrames' = NFrames
                   /\ stack_frames'[NFrames] =
                         [stack_frames[NFrames] EXCEPT !.stack = SubSeq(s, 1, Len(s) - 1)]
                   /\ below = SubSeq(stack_frames', 1, NFrames - 1) ]_vars

C7_Witness ==
    /\ last.res = "Ok" /\ last.ins = Return("Int") /\ NFrames = 1
    /\ Top(Machine).stack = <<PInt(6)>>
    /\ Top(Machine).pc = 7 /\ Len(heap) = 1

\* C8: a step touches the top frame only and frames come and go at the top: the
\* frame count changes by at most one and every frame below the top is unchanged,
\* except that a value-returning Return appends exactly one value to the operand
\* stack of the frame that becomes the top.
C8_Lifo ==
    [][ Stepped =>
          /\ NFrames' \in {NFrames - 1, NFrames, NFrames + 1}
          /\ \A i \in 1..(NFrames - 1) :
                \/ i <= NFrames' /\ stack_frames'[i] = stack_frames[i]
                \/ /\ i = NFrames' /\ CurIns.op = "Return" /\ CurIns.t # "Null"
                   /\ Len(stack_frames'[i].stack) = Len(stack_frames[i].stack) + 1
                   /\ stack_frames'[i] =
                         [stack_frames[i] EXCEPT
                            !.stack = Append(@, stack_frames'[i].stack[Len(stack_frames'[i].stack)])]
          /\ NFrames' = NFrames + 1 => stack_frames'[NFrames + 1].pc = 0 ]_vars

C8_Witness ==
    /\ NFrames = 2 /\ origin[2].kind = "call" /\ last.res = "Ok"
    /\ Top(Machine).pc = 2 /\ Top(Machine).stack = <<PInt(3), PInt(5)>>
    /\ stack_frames[1].pc = 3 /\ stack_frames[1].stack = <<>>

\* The classes that define the method with the given key.
Defining(key) == {n \in DOMAIN class_area : key \in DOMAIN class_area[n].methods}
Indices(kind) == {i \in 1..Len(origin) : origin[i].kind = kind}

\* C9: run() pushes one frame for every loaded class that defines <clinit>()V, on
\* top of the main frames, which start with pc = 0, an empty operand stack and empty
\* locals; no instruction of a main frame executes while a <clinit> frame is left.
C9_ClinitBeforeMain ==
    [][ /\ (status = "new" /\ status' = "running") =>
              /\ Cardinality(Indices("clinit")') = Cardinality(Defining(ClinitKey))
              /\ \A n \in Defining(ClinitKey) :
                    \E i \in Indices("clinit")' :
                       /\ stack_frames'[i].class_name = n
                       /\ stack_frames'[i].method = class_area[n].methods[ClinitKey]
              /\ Cardinality(Indices("main")') = Cardinality(Defining(MainKey))
              /\ \A i \in Indices("main")' :
                    /\ stack_frames'[i].pc = 0
                    /\ stack_frames'[i].stack = <<>>
                    /\ stack_frames'[i].locals = <<>>
                    /\ stack_frames'[i].method =
                          class_area[stack_frames'[i].class_name].methods[MainKey]
        /\ (Stepped /\ origin[NFrames].kind = "main") => Indices("clinit") = {} ]_vars

C9_Witness ==
    /\ status = "running" /\ NFrames = 1 /\ origin[1].kind = "main"
    /\ Top(Machine).pc = 1 /\ last.res = "Ok" /\ last.ins = GetStatic(FRef(S_A, S_x, D_Int))
    /\ Top(Machine).stack = <<PInt(7)>>
    /\ Defining(ClinitKey) = {S_A, S_B}

DigitOf(c) == CASE c = "0" -> 0 [] c = "1" -> 1 [] c = "2" -> 2 [] c = "3" -> 3
                [] c = "4" -> 4 [] c = "5" -> 5 [] c = "6" -> 6 [] c = "7" -> 7
                [] c = "8" -> 8 [] c = "9" -> 9 [] OTHER -> -1

RECURSIVE ParseDigits(_)
ParseDigits(t) == IF t = <<>> THEN 0 ELSE 10 * ParseDigits(Rest(t)) + DigitOf(Peek(t))

\* t is the decimal text of the natural number n.
IsNatText(t, n) ==
    /\ t # <<>>
    /\ \A i \in 1..Len(t) : DigitOf(t[i]) >= 0
    /\ (Len(t) > 1 => t[1] # "0")
    /\ ParseDigits(t) = n

\* t is the decimal text of the integer v.
IsDecimalText(t, v) ==
    IF v < 0 THEN t # <<>> /\ t[1] = "-" /\ IsNatText(Tail(t), 0 - v)
    ELSE IsNatText(t, v)

IsPrefix(s, t) == Len(s) <= Len(t) /\ SubSeq(t, 1, Len(s)) = s

\* The coming step is an InvokeVirtual / InvokeSpecial of println on a class that
\* is not loaded.
PrintlnIntrinsic ==
    /\ CurIns.op \in {"InvokeVirtual", "InvokeSpecial"}
    /\ CurRef # <<>>
    /\ CurRef[1] \notin DOMAIN class_area
    /\ CurRef[2] = S_println

\* C10: the println intrinsic on a stack [..., receiver, Int(v)] appends the decimal
\* text of v and nothing else to stdout, pops v and the receiver, pushes no frame
\* and advances pc by one; no other instruction changes stdout, and the earlier
\* contents of stdout stay a prefix of it.
C10_Println ==
    [][ Stepped =>
          LET s == Top(Machine).stack IN
          /\ IsPrefix(stdout, stdout')
          /\ stdout' # stdout => PrintlnIntrinsic
          /\ (PrintlnIntrinsic /\ Len(s) >= 2 /\ s[Len(s)].tag = "Int") =>
                /\ last'.res = "Ok"
                /\ IsDecimalText(SubSeq(stdout', Len(stdout) + 1, Len(stdout')), s[Len(s)].v)
                /\ stack_frames' =
                      [stack_frames EXCEPT ![NFrames] =
                          [@ EXCEPT !.stack = SubSeq(s, 1, Len(s) - 2), !.pc = @ + 1]] ]_vars

C10_Witness ==
    /\ stdout = <<"4", "2">> /\ last.res = "Ok" /\ last.ins = I_println
    /\ NFrames = 1 /\ Top(Machine).stack = <<>> /\ Top(Machine).pc = 3
    /\ Top(Machine).method[1] = AConstNull

\* The main method of class A.
MainOfA == class_area[S_A].methods[MainKey]

C12_ArrayProgram ==
    \A n \in ArrayCounts : \A indices \in {Ascending(n), Descending(n)} :
        (DOMAIN class_area = {S_A} /\ MainOfA = ArrayMain(n, indices)) =>
            /\ status \notin {"err", "panic"}
            /\ last.n <= Len(MainOfA)
            /\ status = "ok" =>
                  /\ stack_frames = <<>>
                  /\ IsDecimalText(stdout, n)
                  /\ (n = 10 => stdout = <<"1", "0">>)

C12_Witness ==
    /\ status = "ok" /\ stdout = <<"1", "0">>
    /\ DOMAIN class_area = {S_A} /\ MainOfA = ArrayMain(10, Ascending(10))

C14_HeapAppendOnly ==
    [][ Stepped =>
          LET s == Top(Machine).stack IN
          /\ Len(heap') >= Len(heap)
          /\ \A i \in 1..Len(heap) : heap'[i].class_name = heap[i].class_name
          /\ Len(heap') # Len(heap) => (CurIns.op = "New" /\ last'.res = "Ok")
          /\ (CurIns.op = "New" /\ last'.res = "Ok") =>
                /\ heap' = Append(heap, [class_name |-> class_parser(CurIns.a, CurPool(Machine)),
                                         fields |-> <<>>])
                /\ stack_frames'[NFrames].stack = Append(s, PReference(Len(heap)))
          /\ \A i \in 1..Len(heap) :
                heap'[i].fields # heap[i].fields =>
                    /\ CurIns.op = "PutField"
                    /\ Len(s) >= 2
                    /\ s[Len(s) - 1] = PReference(i - 1) ]_vars

C14_Witness ==
    /\ Len(heap) = 1 /\ last.res = "Ok" /\ last.ins.op = "PutField"
    /\ heap[1].class_name = S_B /\ DOMAIN heap[1].fields = {S_v}
    /\ heap[1].fields[S_v] = PInt(6)

\* C15: no transition changes the set of loaded classes, a constant pool or a method
\* table; the static fields of a class change only by a PutStatic that resolves to
\* that class, and then only the named field changes, to the popped value.
C15_ClassAreaByPutStatic ==
    [][ /\ DOMAIN class_area' = DOMAIN class_area
        /\ \A c \in DOMAIN class_area :
              /\ class_area'[c].name = class_area[c].name
              /\ class_area'[c].constant_pool = class_area[c].constant_pool
              /\ class_area'[c].methods = class_area[c].methods
              /\ class_area'[c].static_fields # class_area[c].static_fields =>
                    /\ Stepped
                    /\ CurIns.op = "PutStatic"
                    /\ LET ref == field_ref_parser(CurIns.a, CurPool(Machine))
                           old == class_area[c].static_fields
                           new == class_area'[c].static_fields
                       IN  /\ ref # <<>>
                           /\ ref[1] = c
                           /\ DOMAIN new = DOMAIN old \cup {ref[2]}
                           /\ new[ref[2]] = Peek(Top(Machine).stack)
                           /\ \A k \in DOMAIN old \ {ref[2]} : new[k] = old[k] ]_vars

C15_Witness ==
    /\ last.res = "Ok" /\ last.ins = PutStatic(FRef(S_B, S_v, D_Int)) /\ last.n = 8
    /\ class_area[S_B].static_fields = (S_v :> PInt(4)) @@ (S_y :> PInt(2))
    /\ class_area[S_A].static_fields = (S_x :> PInt(3))
    /\ Top(Machine).class_name = S_A

\* The state after the step being taken, as a machine.
MachineAfter == [class_area |-> class_area', heap |-> heap',
                 stack_frames |-> stack_frames', stdout |-> stdout']

\* C16: a NewArray whose operand is an Int n >= 0 succeeds, appends one array of n
\* default values to the frame's array table, leaves the other arrays as they were
\* and pushes the reference of the new array; an ArrayLength executed right after
\* it pushes Int(n).
C16_NewArrayLength ==
    [][ ( /\ Stepped
          /\ CurIns.op = "NewArray"
          /\ Top(Machine).stack # <<>>
          /\ Peek(Top(Machine).stack).tag = "Int"
          /\ Peek(Top(Machine).stack).v >= 0 ) =>
        LET f == Top(Machine)
            n == Peek(f.stack).v
            g == stack_frames'[NFrames]
            then_length == ExecArrayLength(MachineAfter, ArrayLength)
        IN  /\ last'.res = "Ok"
            /\ Len(g.arrays) = Len(f.arrays) + 1
            /\ SubSeq(g.arrays, 1, Len(f.arrays)) = f.arrays
            /\ g.arrays[Len(g.arrays)] = [i \in 1..n |-> PInt(0)]
            /\ g.stack = Append(Drop(f.stack, 1), PReference(Len(f.arrays)))
            /\ then_length.res = "Ok"
            /\ Peek(Top(then_length.m).stack) = PInt(n) ]_vars

IsZero(p) == IF p.tag = "Long" THEN p.v = Zero64 ELSE p.v = 0
\* The two values on top of the stack have the operand type of the instruction.
TwoOperands(t) ==
    LET s == Top(Machine).stack IN
    Len(s) >= 2 /\ s[Len(s) - 1].tag = t /\ s[Len(s)].tag = t

\* C17: a Div or Rem on Int or Long whose divisor (the top of the stack) is zero makes
\* step() return an error value: the run does not abort, the pc stays where it is and
\* no result is pushed.
C17_DivideByZeroIsError ==
    [][ ( /\ Stepped
          /\ CurIns.op \in {"Div", "Rem"}
          /\ CurIns.t \in {"Int", "Long"}
          /\ TwoOperands(CurIns.t)
          /\ IsZero(Peek(Top(Machine).stack)) ) =>
        LET f == Top(Machine)
            g == stack_frames'[NFrames]
        IN  /\ last'.res = "Err"
            /\ Len(stack_frames') = NFrames
            /\ g.pc = f.pc
            /\ g.stack \in {f.stack, Drop(f.stack, 2)} ]_vars

IsNegative(p) == IF p.tag = "Long" THEN IsNeg64(p.v) ELSE p.v < 0
\* The logical right shift of a negative value by s >= 1 bits: the floor of v / 2^s
\* that the arithmetic shift gives, plus 2^(bits - s).
LogicalShr(p, s) ==
    IF p.tag = "Long" THEN PLong(Add64(Shr64(p.v, s), Shl64(I64(1), 64 - s)))
    ELSE PInt(ToI32(Add64(Shr64(I64(p.v), s), Shl64(I64(1), 32 - s))))

\* C18: UShr on a negative Int (Long) and a shift count s with 1 <= s <= 31 (63)
\* pushes the logical shift, (v mod 2^32) div 2^s (2^64 for Long), which is not
\* negative.
C18_UShrIsLogical ==
    [][ LET f == Top(Machine)
            value1 == f.stack[Len(f.stack) - 1]
            value2 == f.stack[Len(f.stack)]
        IN  ( /\ Stepped
              /\ CurIns.op = "UShr"
              /\ CurIns.t \in {"Int", "Long"}
              /\ Len(f.stack) >= 2
              /\ value1.tag = CurIns.t
              /\ value2.tag = "Int"
              /\ IsNegative(value1)
              /\ value2.v \in 1..(IF CurIns.t = "Int" THEN 31 ELSE 63) ) =>
            /\ last'.res = "Ok"
            /\ ~IsNegative(LogicalShr(value1, value2.v))
            /\ stack_frames'[NFrames].stack =
                   Append(Drop(f.stack, 2), LogicalShr(value1, value2.v)) ]_vars

\* The result of Add, Sub or Mul modulo 2^32 (Int) or 2^64 (Long), and of Neg.
Wrapped(o, a, b) ==
    LET x == IF a.tag = "Long" THEN a.v ELSE I64(a.v)
        y == IF b.tag = "Long" THEN b.v ELSE I64(b.v)
        r == CASE o = "Add" -> Add64(x, y)
               [] o = "Sub" -> Sub64(x, y)
               [] o = "Mul" -> Mul64(x, y)
               [] o = "Neg" -> Neg64(x)
    IN  IF a.tag = "Long" THEN PLong(r) ELSE PInt(ToI32(r))

\* C19: Add, Sub and Mul on two Int (Long) operands, Neg on one and IInc on an Int
\* local succeed for all values and give the result modulo 2^32 (2^64).
C19_ArithmeticWraps ==
    [][ LET f == Top(Machine)
            s == f.stack
            g == stack_frames'[NFrames]
        IN  /\ ( /\ Stepped
                 /\ CurIns.op \in {"Add", "Sub", "Mul"}
                 /\ CurIns.t \in {"Int", "Long"}
                 /\ TwoOperands(CurIns.t) ) =>
                    /\ last'.res = "Ok"
                    /\ g.stack = Append(Drop(s, 2), Wrapped(CurIns.op, s[Len(s) - 1], s[Len(s)]))
            /\ ( /\ Stepped
                 /\ CurIns.op = "Neg"
                 /\ CurIns.t \in {"Int", "Long"}
                 /\ s # <<>>
                 /\ Peek(s).tag = CurIns.t ) =>
                    /\ last'.res = "Ok"
                    /\ g.stack = Append(Rest(s), Wrapped("Neg", Peek(s), Peek(s)))
            /\ ( /\ Stepped
                 /\ CurIns.op = "IInc"
                 /\ CurIns.a + 1 \in 1..Len(f.locals)
                 /\ f.locals[CurIns.a + 1].tag = "Int" ) =>
                    /\ last'.res = "Ok"
                    /\ g.locals = [f.locals EXCEPT ![CurIns.a + 1] =
                                       Wrapped("Add", @, PInt(CurIns.b))] ]_vars

\* C20: LCmp on two Longs, value2 on top, succeeds and replaces them by Int(-1),
\* Int(0) or Int(1) as value1 is less than, equal to or greater than value2.
C20_LCmpOrders ==
    [][ LET s == Top(Machine).stack
            value1 == s[Len(s) - 1].v
            value2 == s[Len(s)].v
        IN  ( /\ Stepped
              /\ CurIns.op = "LCmp"
              /\ TwoOperands("Long") ) =>
            /\ last'.res = "Ok"
            /\ stack_frames'[NFrames].stack =
                   Append(Drop(s, 2), PInt(IF Less64(value1, value2) THEN -1
                                           ELSE IF value1 = value2 THEN 0 ELSE 1)) ]_vars

\* The tag the second operand (the top of the stack) of a binary instruction with
\* operand type t must have: Int for the count of a shift, t otherwise.
SecondTag(op, t) == IF op \in {"Shl", "Shr", "UShr"} THEN "Int" ELSE t

\* C21: a binary arithmetic, bitwise or shift instruction with operand type T, executed
\* on two operands of which the first has a tag other than T or the second a tag other
\* than T (other than Int for the count of a shift), makes step() return an error
\* value and pushes no result, whichever operand is the mismatching one.
C21_MismatchIsError ==
    [][ ( /\ Stepped
          /\ CurIns.op \in MathOps \ {"Neg"}
          /\ CurIns.t \in {"Int", "Long"}
          /\ Len(Top(Machine).stack) >= 2
          /\ LET s == Top(Machine).stack IN
             \/ s[Len(s) - 1].tag # CurIns.t
             \/ s[Len(s)].tag # SecondTag(CurIns.op, CurIns.t) ) =>
        LET f == Top(Machine)
            g == stack_frames'[NFrames]
        IN  /\ last'.res = "Err"
            /\ Len(stack_frames') = NFrames
            /\ g.pc = f.pc
            /\ g.stack \in {f.stack, Drop(f.stack, 2)} ]_vars

\* C22: Dup2 executed with a Long or Double on top of the operand stack succeeds and
\* pushes one copy of that value only; executed with two values that are not wide on
\* top it succeeds and pushes a copy of the pair in its order.
C22_Dup2ByCategory ==
    [][ ( /\ Stepped
          /\ CurIns = Simple("Dup2")
          /\ Top(Machine).stack # <<>>
          /\ LET s == Top(Machine).stack IN
             is_wide(Peek(s)) \/ (Len(s) >= 2 /\ ~is_wide(s[Len(s) - 1])) ) =>
        LET f == Top(Machine)
            s == f.stack
            g == stack_frames'[NFrames]
        IN  /\ last'.res = "Ok"
            /\ g.pc = f.pc + 1
            /\ g.stack = IF is_wide(Peek(s)) THEN Append(s, Peek(s))
                         ELSE s \o SubSeq(s, Len(s) - 1, Len(s)) ]_vars

\* The number of values the coming instruction takes from the operand stack, for the
\* instructions that start by popping: Pop2 takes one wide value or two others, the
\* println intrinsic the printed value and the receiver.
Consumes ==
    LET s == Top(Machine).stack IN
    CASE PrintlnIntrinsic -> 2
      [] CurIns.op = "Pop2" -> IF s # <<>> /\ is_wide(Peek(s)) THEN 1 ELSE 2
      [] CurIns.op \in {"Pop", "Dup", "Store", "PutStatic", "If", "IfNull", "IfNonNull"} -> 1
      [] CurIns.op \in {"DupX1", "Dup2", "Swap", "IfICmp", "LCmp"} \cup (MathOps \ {"Neg"}) -> 2
      [] CurIns.op \in {"DupX2", "Dup2X1"} -> 3
      [] CurIns.op = "Dup2X2" -> 4
      [] OTHER -> 0

\* C23: an instruction executed on an operand stack that holds fewer values than it
\* takes makes step() return an error value; no frame is pushed or popped.
C23_UnderflowIsError ==
    [][ (Stepped /\ Len(Top(Machine).stack) < Consumes) =>
        (last'.res = "Err" /\ Len(stack_frames') = NFrames) ]_vars

\* C24: Load, IInc or Ret naming a local variable at an index that is not below the
\* length of the frame's locals makes step() return an error value: the run does not
\* abort, and the frame is left with the pc, the locals and the stack it had.
C24_LocalIndexIsError ==
    [][ ( /\ Stepped
          /\ CurIns.op \in {"Load", "IInc", "Ret"}
          /\ CurIns.a >= Len(Top(Machine).locals) ) =>
        ( /\ last'.res = "Err"
          /\ stack_frames' = stack_frames ) ]_vars

\* The operand stack holds, beneath `above` further values, an Int index on top of a
\* reference to an array of the frame, and the index is outside the array.
IndexOutside(above) ==
    LET f == Top(Machine)
        s == f.stack
        n == Len(s) - above
    IN  /\ n >= 2
        /\ s[n].tag = "Int"
        /\ s[n - 1].tag = "Reference"
        /\ s[n - 1].v < Len(f.arrays)
        /\ s[n].v \notin 0..(Len(f.arrays[s[n - 1].v + 1]) - 1)

\* C25: an AStore or ALoad whose index is outside [0, length) of the referenced array
\* makes step() return an error value and leaves every array of the frame as it was.
C25_ArrayIndexIsError ==
    [][ ( /\ Stepped
          /\ \/ CurIns.op = "AStore" /\ IndexOutside(1)
             \/ CurIns.op = "ALoad" /\ IndexOutside(0) ) =>
        ( /\ last'.res = "Err"
          /\ Len(stack_frames') = NFrames
          /\ stack_frames'[NFrames].arrays = Top(Machine).arrays ) ]_vars

\* The coming invoke names a method that cannot be resolved: its class is not loaded
\* and the method is not the intrinsic PrintStream.println(int), or its class is loaded
\* and has no method of that name and descriptor.
Unresolved ==
    /\ IsInvoke(CurIns)
    /\ CurRef # <<>>
    /\ IF CurRef[1] \in DOMAIN class_area
       THEN CurRef[2] \o CurRef[3] \notin DOMAIN class_area[CurRef[1]].methods
       ELSE CurRef # <<S_PrintStream, S_println, D_I_V>>

\* C26: an invoke of a method that cannot be resolved makes step() return an error
\* value: the call is not skipped and the run does not abort; no frame is pushed and
\* the caller keeps its pc.
C26_UnresolvedIsError ==
    [][ (Stepped /\ Unresolved) =>
        ( /\ last'.res = "Err"
          /\ Len(stack_frames') = NFrames
          /\ stack_frames'[NFrames].pc = Top(Machine).pc ) ]_vars

\* The field reference the coming GetStatic or PutStatic names: <<class, name, type>>,
\* <<>> if the index does not hold one.
CurField == field_ref_parser(CurIns.a, CurPool(Machine))
\* The frame after the step is the frame before it with one more value on the stack
\* (none for <<>>) and the pc advanced by one.
Continues(pushed) ==
    /\ last'.res = "Ok"
    /\ Len(stack_frames') = NFrames
    /\ stack_frames'[NFrames] =
          [Top(Machine) EXCEPT !.stack = @ \o pushed, !.pc = @ + 1]
\* GetStatic on a class that is not loaded: tolerated for java/lang/System, an error
\* for any other class.
GetStaticUnloaded ==
    IF CurField[1] = S_System THEN Continues(<<>>)
    ELSE last'.res = "Err" /\ stack_frames' = stack_frames
\* C27: GetStatic on java/lang/System when it is not loaded succeeds, leaves
\* the stack as it is and advances the pc; on another class that is not loaded it
\* returns an error; on a loaded class it pushes the value of the named static field.
C27_GetStatic ==
    [][ (Stepped /\ CurIns.op = "GetStatic" /\ CurField # <<>>) =>
        IF CurField[1] \in DOMAIN class_area
        THEN /\ CurField[2] \in DOMAIN class_area[CurField[1]].static_fields
             /\ Continues(<<class_area[CurField[1]].static_fields[CurField[2]]>>)
        ELSE GetStaticUnloaded ]_vars

\* C28: MonitorEnter and MonitorExit are no-ops: step() returns Ok, the pc advances by
\* one, and the rest of the frame, the frame stack, the heap, the class area and
\* stdout stay as they were.
C28_MonitorNoOp ==
    [][ (Stepped /\ CurIns.op \in {"MonitorEnter", "MonitorExit"}) =>
        ( /\ Continues(<<>>)
          /\ SubSeq(stack_frames', 1, NFrames - 1) = SubSeq(stack_frames, 1, NFrames - 1)
          /\ UNCHANGED <<heap, class_area, stdout>> ) ]_vars

BranchTaken ==
    LET s == Top(Machine).stack IN
    CASE CurIns.op = "Goto" -> TRUE
      [] CurIns.op = "If" ->
            s # <<>> /\ compare_to_zero(Peek(s), CurIns.t).ok /\ compare_to_zero(Peek(s), CurIns.t).b
      [] CurIns.op = "IfICmp" ->
            /\ Len(s) >= 2
            /\ integer_compare(s[Len(s) - 1], s[Len(s)], CurIns.t).ok
            /\ integer_compare(s[Len(s) - 1], s[Len(s)], CurIns.t).b
      [] CurIns.op = "IfNull" -> s # <<>> /\ Peek(s).tag = "Null"
      [] CurIns.op = "IfNonNull" -> s # <<>> /\ Peek(s).tag # "Null"
      [] OTHER -> FALSE

\* C30: a taken branch at slot k whose offset is -d with 0 < d <= k succeeds and
\* continues at slot k - d, and one whose offset is +d continues at slot k + d.
C30_SignedBranch ==
    [][ ( /\ Stepped
          /\ BranchTaken
          /\ CurIns.a # 0
          /\ Top(Machine).pc + CurIns.a >= 0 ) =>
        ( /\ last'.res = "Ok"
          /\ Len(stack_frames') = NFrames
          /\ stack_frames'[NFrames].pc = Top(Machine).pc + CurIns.a ) ]_vars

\* A byte read as a signed 8-bit value, and two bytes read as a big-endian signed
\* 16-bit value.
SignedByte(b) == IF b >= 128 THEN b - 256 ELSE b
SignedShort(b1, b2) == SignedByte(b1) * 256 + b2

\* C31: bipush with operand byte b decodes to Const(Int(v)) with v the signed 8-bit
\* value of b, and sipush with operand bytes b1 b2 to Const(Int(v)) with v their
\* big-endian signed 16-bit value.
C31_PushSigned ==
    (dstatus = "done" /\ Len(code) = 1 + OperandBytes(code[1])) =>
        CASE code[1] = 16 -> instructions[1] = Const(PInt(SignedByte(code[2])))
          [] code[1] = 17 -> instructions[1] = Const(PInt(SignedShort(code[2], code[3])))
          [] OTHER -> TRUE

\* The indices of the class file's pool that come after a Long or a Double.
WideKinds == {"Long", "Double"}
HasWide == \E k \in 1..Len(class_file.assigned) : class_file.assigned[k].kind \in WideKinds
AfterWide ==
    {i \in 1..Len(class_file.assigned) :
        \E k \in 1..(i - 1) : class_file.assigned[k].kind \in WideKinds}
ResolvesAsAssigned(i) ==
    CASE class_file.assigned[i].kind = "Class" ->
            class_parser(i, constant_pool) = class_parser(i, class_file.assigned)
      [] class_file.assigned[i].kind = "NameAndType" ->
            name_and_type_parser(i, constant_pool) = name_and_type_parser(i, class_file.assigned)
      [] class_file.assigned[i].kind = "MethodRef" ->
            method_ref_parser(i, constant_pool) = method_ref_parser(i, class_file.assigned)
      [] OTHER -> TRUE
ParsedAsAssigned ==
    /\ pstatus = "parsed"
    /\ rpos = class_file.pool_end
    /\ \A i \in AfterWide : ResolvesAsAssigned(i)

\* C32: when the constant pool of a class file holds a Long or a Double, the
\* parse of the pool ends exactly at the access flags, and every index after
\* the Long or Double resolves to the entry the class file gives that index.
C32_WidePool == (HasWide /\ pstatus \in {"parsed", "panic"}) => ParsedAsAssigned

\* C33: a Swap on a stack of two or more values exchanges the top two values and
\* leaves the rest of the stack, the locals, the arrays and the heap as they were;
\* a second Swap executed right after it restores the operand stack.
C33_SwapTwice ==
    [][ (Stepped /\ CurIns.op = "Swap" /\ Len(Top(Machine).stack) >= 2) =>
            LET s == Top(Machine).stack
                again == ExecSwap(MachineAfter, CurIns)
            IN  /\ last'.res = "Ok"
                /\ Len(stack_frames') = NFrames
                /\ stack_frames'[NFrames] =
                      [Top(Machine) EXCEPT !.stack = Drop(s, 2) \o <<s[Len(s)], s[Len(s) - 1]>>,
                                           !.pc = @ + 1]
                /\ SubSeq(stack_frames', 1, NFrames - 1) = SubSeq(stack_frames, 1, NFrames - 1)
                /\ heap' = heap /\ class_area' = class_area /\ stdout' = stdout
                /\ again.res = "Ok"
                /\ Top(again.m).stack = s ]_vars
\* A Swap has exchanged two different values above a third one.
C33_Witness ==
    /\ last.ins.op = "Swap" /\ last.res = "Ok"
    /\ stack_frames # <<>>
    /\ Len(Top(Machine).stack) >= 3
    /\ Peek(Top(Machine).stack) # Peek(Rest(Top(Machine).stack))

\* The coming step is a Pop whose operand is a value of category 1.
PopsNarrow ==
    /\ Stepped
    /\ CurIns.op = "Pop"
    /\ Top(Machine).stack # <<>>
    /\ ~is_wide(Peek(Top(Machine).stack))
\* The Dup executed right after the step.
DupAfter == ExecDup(MachineAfter, Simple("Dup"))

\* C34: a Pop of a category-1 value followed by a Dup leaves the operand stack as it
\* was before the two instructions.
C34_PopDupRestores ==
    [][ PopsNarrow => (DupAfter.res = "Ok" /\ Top(DupAfter.m).stack = Top(Machine).stack) ]_vars

\* C34, amended: a Pop of a category-1 value followed by a Dup replaces the top of
\* the operand stack by a copy of the value beneath it and leaves the values beneath
\* as they were, so the stack is as before exactly when its two top values were
\* equal; on a stack of one value the Dup returns an error.
C34_PopDupCopies ==
    [][ PopsNarrow =>
            LET s == Top(Machine).stack IN
            /\ last'.res = "Ok"
            /\ IF Len(s) >= 2
               THEN /\ DupAfter.res = "Ok"
                    /\ Top(DupAfter.m).stack = Rest(s) \o <<s[Len(s) - 1]>>
                    /\ (Top(DupAfter.m).stack = s) <=> (s[Len(s)] = s[Len(s) - 1])
               ELSE DupAfter.res = "Err" ]_vars
\* A Pop has removed a category-1 value and left a value for the Dup to copy.
C34_Witness ==
    /\ last.ins.op = "Pop" /\ last.res = "Ok"
    /\ stack_frames # <<>>
    /\ Len(Top(Machine).stack) >= 2

\* The number of operands a conditional branch pops.
BranchOperands == IF CurIns.op = "If" THEN 1 ELSE 2
\* The coming step is an If or an IfICmp that finds its Int operands on the stack.
ComparesInts ==
    /\ Stepped
    /\ CurIns.op \in {"If", "IfICmp"}
    /\ Len(Top(Machine).stack) >= BranchOperands
    /\ \A k \in 0..(BranchOperands - 1) :
          Top(Machine).stack[Len(Top(Machine).stack) - k].tag = "Int"
\* The step has popped the operands, set the pc to target and changed nothing else.
BranchedTo(target) ==
    /\ last'.res = "Ok"
    /\ Len(stack_frames') = NFrames
    /\ stack_frames'[NFrames] =
          [Top(Machine) EXCEPT !.stack = Drop(@, BranchOperands), !.pc = target]
    /\ SubSeq(stack_frames', 1, NFrames - 1) = SubSeq(stack_frames, 1, NFrames - 1)
    /\ heap' = heap /\ class_area' = class_area /\ stdout' = stdout

\* C35: If pops exactly one value and IfICmp exactly two, whether or not the branch is
\* taken; the next pc is pc + offset when the comparison holds and pc + 1 when it
\* does not; locals, heap and frame stack depth do not change.
C35_ConditionalBranch ==
    [][ ComparesInts =>
            BranchedTo(IF BranchTaken THEN Top(Machine).pc + CurIns.a
                       ELSE Top(Machine).pc + 1) ]_vars

\* value1, pushed first, and value2, on top of it.
Value1 == Top(Machine).stack[Len(Top(Machine).stack) - 1]
Value2 == Peek(Top(Machine).stack)
OrderedOps == {"Sub", "Div", "Rem", "Shl", "Shr", "UShr"}
ModestInts == -1048576..1048576
\* The operands of the coming instruction have the tags it names, and a op b is
\* defined and in the range of the type.
OrderedCase(o, a, b) ==
    /\ a.tag = CurIns.t
    /\ a.tag \in {"Int", "Long"}
    /\ b.tag = (IF o \in {"Shl", "Shr", "UShr"} THEN "Int" ELSE a.tag)
    /\ CASE o = "Sub" ->
                IF a.tag = "Int" THEN a.v \in ModestInts /\ b.v \in ModestInts
                ELSE ~SubOverflows64(a.v, b.v)
         [] o \in {"Div", "Rem"} ->
                IF a.tag = "Int" THEN a.v \in ModestInts /\ b.v \in ModestInts /\ b.v # 0
                ELSE b.v # Zero64 /\ ~(a.v = Min64 /\ b.v = I64(-1))
         [] o \in {"Shl", "Shr"} -> b.v \in 0..(IF a.tag = "Int" THEN 31 ELSE 63)
         [] OTHER ->
                /\ b.v \in 0..(IF a.tag = "Int" THEN 31 ELSE 63)
                /\ IF a.tag = "Int" THEN a.v >= 0 ELSE ~IsNeg64(a.v)
\* a op b, a being the left operand (for a shift: a shifted by b).
InOrder(o, a, b) ==
    CASE o = "Sub" -> IF a.tag = "Int" THEN PInt(a.v - b.v) ELSE PLong(Sub64(a.v, b.v))
      [] o = "Div" -> IF a.tag = "Int" THEN PInt(TruncDiv(a.v, b.v)) ELSE PLong(Div64(a.v, b.v))
      [] o = "Rem" -> IF a.tag = "Int" THEN PInt(TruncRem(a.v, b.v)) ELSE PLong(Rem64(a.v, b.v))
      [] o = "Shl" -> IF a.tag = "Int" THEN PInt(ToI32(Shl64(I64(a.v), b.v)))
                      ELSE PLong(Shl64(a.v, b.v))
      [] OTHER -> IF a.tag = "Int" THEN PInt(ToI32(Shr64(I64(a.v), b.v)))
                  ELSE PLong(Shr64(a.v, b.v))

NegatesTop ==
    /\ Stepped
    /\ CurIns.op = "Neg"
    /\ Top(Machine).stack # <<>>
    /\ Value2.tag = CurIns.t
    /\ Value2.tag \in {"Int", "Long"}
    /\ Value2 \notin {PInt(MinI32), PLong(Min64)}
Negated(p) == IF p.tag = "Int" THEN PInt(0 - p.v) ELSE PLong(Neg64(p.v))

\* C37: Neg(T) pops one value of tag T and pushes its negation: the depth of the
\* operand stack is as before, the values beneath the operand are untouched, and a
\* Neg on a stack of a single value of tag T succeeds.
C37_NegIsUnary ==
    [][ NegatesTop =>
            ( /\ last'.res = "Ok"
              /\ Len(stack_frames') = NFrames
              /\ stack_frames'[NFrames] =
                    [Top(Machine) EXCEPT !.stack = Rest(@) \o <<Negated(Value2)>>,
                                         !.pc = @ + 1] ) ]_vars

\* Nothing has changed but the operand stack of the top frame, which has lost values.
OnlyPopped ==
    /\ Len(stack_frames') = NFrames
    /\ SubSeq(stack_frames', 1, NFrames - 1) = SubSeq(stack_frames, 1, NFrames - 1)
    /\ stack_frames'[NFrames] =
          [Top(Machine) EXCEPT !.stack = stack_frames'[NFrames].stack]
    /\ IsPrefix(stack_frames'[NFrames].stack, Top(Machine).stack)
    /\ heap' = heap
    /\ class_area' = class_area
    /\ stdout' = stdout

\* C38: a call of step() that returns an error leaves the pc of every frame, the
\* depth of the frame stack, the locals and arrays of every frame, the heap, the
\* static fields and stdout as they were; only the operand stack of the top frame
\* may have changed, by losing the operands popped before the failure.
C38_FailedStepKeepsState ==
    [][ (Stepped /\ last'.res = "Err") => OnlyPopped ]_vars

\* The strings the entry at index i resolves to, for the function that returned i.
ResolvesTo(f, i, cp) ==
    CASE f = "utf8" -> IF cp[i].kind = "Utf8" THEN <<cp[i].s>> ELSE <<>>
      [] f = "class" -> <<class_parser(i, cp)>>
      [] f = "name_and_type" -> name_and_type_parser(i, cp)
      [] f = "method_ref" -> method_ref_parser(i, cp)
      [] OTHER -> field_ref_parser(i, cp)

\* C39: each find_or_add_* call returns an index between 1 and the length of the
\* pool whose entry resolves back to the strings of the call; the same call made
\* again returns the same index and leaves the pool as it is; no call changes or
\* removes an entry, and every index returned earlier still resolves to its strings.
C39_FindOrAdd ==
    call.f # "none" =>
        /\ call.result \in 1..Len(constant_pool)
        /\ ResolvesTo(call.f, call.result, constant_pool) = call.args
        /\ FindOrAdd(call.f, call.args, constant_pool) = Found(constant_pool, call.result)
        /\ IsPrefix(call.before, constant_pool)
        /\ \A c \in call.issued :
              c[3] \in 1..Len(constant_pool) /\ ResolvesTo(c[1], c[3], constant_pool) = c[2]
\* A method reference has been added, with its class found and its name added, to a
\* pool that a call before it had extended.
C39_Witness ==
    /\ call.n = 2
    /\ call.f = "method_ref"
    /\ Len(constant_pool) > Len(call.before) + 1
    /\ find_class(call.before, call.args[1]) # 0
    /\ Cardinality(call.issued) = 2
====
